---- MODULE Spec2Model ----
(***************************************************************************)
(* Vault: collectible-card portfolio tracker.                              *)
(*                                                                         *)
(* The store (src/vault/database.py) is two SQLite tables, items and       *)
(* prices.  Items are written by upsert_item (called per CSV row by        *)
(* importer.import_csv), update_item_cost_basis and update_item_api_id;    *)
(* prices are appended by record_price (import and the CLI refresh run).   *)
(* get_all_items and get_summary_stats are the two read paths.             *)
(*                                                                         *)
(* Conventions of the model                                                *)
(*   - an optional (nullable) value is a sequence: <<>> is NULL / None,    *)
(*     <<v>> is the value v;                                               *)
(*   - money is an integer number of cents;                                *)
(*   - text that the code parses (quantity, price columns) is a tuple of   *)
(*     one-character strings, so that parsing is computed, not assumed;    *)
(*   - time is an integer number of seconds; CURRENT_TIMESTAMP has second  *)
(*     granularity, so two writes with no Tick between them carry the same *)
(*     timestamp;                                                          *)
(*   - a ratio a/b*100 is kept exact as the pair [num |-> a*100, den |-> b]*)
(***************************************************************************)
EXTENDS Integers, Sequences, FiniteSets, TLC

----------------------------------------------------------------------------
(* Bounds of the model *)

MaxItems == 2

MaxPrices == 2

MaxSeconds == 1

MaxRows == 2

MaxMovers == 6

(* the wall clock of the pacing model stops here, in ticks of 0.05 s *)
MaxTicks == 9

(* Program constant: datetime('now', '-1 day') *)
DAY == 86400

(* Program constant: MIN_CALL_INTERVAL = 0.1 s, in ticks of 0.05 s *)
MIN_CALL_INTERVAL == 2

----------------------------------------------------------------------------
(* Optional values *)

None == <<>>

Some(v) == <<v>>

IsNone(o) == o = <<>>

IsSome(o) == o # <<>>

Get(o) == o[1]

(* Python `x or None` on a str: the empty string becomes None *)
OrNone(s) == IF s = "" THEN None ELSE Some(s)

(* Python truthiness of an Optional[float]: None and 0 are falsy *)
Truthy(o) == IsSome(o) /\ Get(o) # 0

RECURSIVE SetToSeq(_)
(* the elements of a finite set of integers in ascending order *)
SetToSeq(S) ==
  IF S = {} THEN <<>>
  ELSE LET m == CHOOSE x \in S : \A y \in S : x <= y
       IN <<m>> \o SetToSeq(S \ {m})

Max(S) == CHOOSE x \in S : \A y \in S : y <= x

Min(S) == CHOOSE x \in S : \A y \in S : x <= y

IsPrefix(s, t) == Len(s) <= Len(t) /\ \A i \in 1..Len(s) : s[i] = t[i]

----------------------------------------------------------------------------
(* Text parsing: importer.parse_quantity and importer.parse_price *)

Digits == <<"0", "1", "2", "3", "4", "5", "6", "7", "8", "9">>

IsDigit(c) == \E i \in 1..10 : Digits[i] = c

DigitVal(c) == (CHOOSE i \in 1..10 : Digits[i] = c) - 1

IsSpace(c) == c = " "

RECURSIVE LStrip(_)
LStrip(s) == IF s # <<>> /\ IsSpace(Head(s)) THEN LStrip(Tail(s)) ELSE s

RECURSIVE RStrip(_)
RStrip(s) ==
  IF s # <<>> /\ IsSpace(s[Len(s)]) THEN RStrip(SubSeq(s, 1, Len(s) - 1)) ELSE s

(* str.strip() *)
Strip(s) == RStrip(LStrip(s))

(* str.replace(c, "") *)
Remove(s, c) == SelectSeq(s, LAMBDA x : x # c)

AllDigits(s) == \A i \in 1..Len(s) : IsDigit(s[i])

RECURSIVE DigitsVal(_)
DigitsVal(s) ==
  IF s = <<>> THEN 0 ELSE DigitsVal(SubSeq(s, 1, Len(s) - 1)) * 10 + DigitVal(s[Len(s)])

HasSign(s) == s # <<>> /\ Head(s) \in {"-", "+"}

Unsigned(s) == IF HasSign(s) THEN Tail(s) ELSE s

Sign(s) == IF s # <<>> /\ Head(s) = "-" THEN -1 ELSE 1

(* int(str): surrounding blanks, an optional sign, one or more digits *)
IntOk(s) == LET u == Unsigned(Strip(s)) IN u # <<>> /\ AllDigits(u)

IntVal(s) == LET t == Strip(s) IN Sign(t) * DigitsVal(Unsigned(t))

parse_quantity(value) ==
  IF value = <<>> \/ Strip(value) = <<>> THEN 1
  ELSE IF IntOk(value) THEN IntVal(value)
  ELSE 1

DotPos(s) == IF \E i \in 1..Len(s) : s[i] = "."
             THEN Min({i \in 1..Len(s) : s[i] = "."})
             ELSE 0

IntPart(s) == IF DotPos(s) = 0 THEN s ELSE SubSeq(s, 1, DotPos(s) - 1)

FracPart(s) == IF DotPos(s) = 0 THEN <<>> ELSE SubSeq(s, DotPos(s) + 1, Len(s))

(* float(str) for plain decimals: optional sign, digits, optional point and
   digits, at least one digit in all (exponents, inf, nan are not modelled) *)
FloatOk(s) ==
  LET u == Unsigned(Strip(s))
  IN /\ AllDigits(IntPart(u))
     /\ AllDigits(FracPart(u))
     /\ Len(IntPart(u)) + Len(FracPart(u)) > 0

(* the value in cents; the model keeps two decimal places *)
Cents(f) == DigitsVal(SubSeq(f \o <<"0", "0">>, 1, 2))

FloatVal(s) ==
  LET t == Strip(s)
      u == Unsigned(t)
  IN Sign(t) * (DigitsVal(IntPart(u)) * 100 + Cents(FracPart(u)))

parse_price(value) ==
  IF value = <<>> \/ Strip(value) = <<>> THEN None
  ELSE LET cleaned == Strip(Remove(Remove(value, "$"), ","))
       IN IF FloatOk(cleaned) THEN Some(FloatVal(cleaned)) ELSE None

----------------------------------------------------------------------------
(* The store *)

VARIABLES
  items,   \* table items: a sequence of rows, the row id is its position
  prices,  \* table prices: a sequence of rows [item_id, price, timestamp]
  now,     \* wall clock, in seconds
  run,     \* the refresh run in progress (cli.update), if any
  last     \* the operation that acted last, with what it returned

vars == <<items, prices, now, run, last>>

ItemIds == 1..Len(items)

NoRun == [active |-> FALSE, cards |-> <<>>, updated |-> 0, failed |-> 0, base |-> 0]

(* what `last` records: the operation, the item id it returned or was given,
   whether that item existed before it, whether it wrote an observation (or,
   for a cost-basis edit, returned true), and the quantity it was given *)
Ret(op, id, found, ok, quantity) ==
  [op |-> op, id |-> id, found |-> found, ok |-> ok, quantity |-> quantity]

(* init_db on a fresh database file: both tables empty *)
Init ==
  /\ items = <<>>
  /\ prices = <<>>
  /\ now = 0
  /\ run = NoRun
  /\ last = Ret("init_db", 0, FALSE, FALSE, 0)

----------------------------------------------------------------------------
(* importer.is_sealed_product.  Names and categories are opaque strings; the
   two tables say which of the modelled strings contain, lower-cased, the
   word "sealed" (category) or one of the sealed keywords (name). *)

CategoriesWithSealed == {"Sealed", "Sealed Booster Box"}

NamesWithKeyword == {"Booster Box", "Scarlet & Violet Booster Box", "Elite Trainer Box"}

is_sealed_product(category, product_name) ==
  IF category \in CategoriesWithSealed THEN TRUE
  ELSE IF product_name \in NamesWithKeyword THEN TRUE
  ELSE FALSE

(* importer.read_csv: one DictReader record to a normalised row.  The text
   columns arrive stripped; the numeric columns are parsed. *)
read_csv(rec) ==
  [ portfolio_name |-> rec.portfolio_name,
    category       |-> rec.category,
    set_name       |-> rec.set_name,
    name           |-> rec.name,
    card_number    |-> rec.card_number,
    rarity         |-> rec.rarity,
    variance       |-> rec.variance,
    grade          |-> rec.grade,
    condition      |-> rec.condition,
    cost_basis     |-> parse_price(rec.cost),
    quantity       |-> parse_quantity(rec.quantity),
    market_price   |-> parse_price(rec.market_price),
    price_override |-> parse_price(rec.price_override),
    date_added     |-> rec.date_added,
    notes          |-> rec.notes ]

----------------------------------------------------------------------------
(* database.upsert_item *)

(* SQL `a = b`: never true when either side is NULL *)
SqlEq(a, b) == IsSome(a) /\ IsSome(b) /\ a = b

(* SQL `a IS b`: NULL-safe equality *)
SqlIs(a, b) == a = b

(* the lookup written with `=` on the nullable columns: a row whose key has
   a NULL column is never found again *)
KeyMatch_Equals(it, a) ==
  /\ it.name = a.name
  /\ SqlEq(it.set_name, a.set_name)
  /\ SqlEq(it.card_number, a.card_number)
  /\ SqlEq(it.variance, a.variance)
  /\ SqlEq(it.grade, a.grade)
  /\ SqlEq(it.condition, a.condition)

(* WHERE name = ? AND set_name IS ? AND card_number IS ? AND variance IS ?
   AND grade IS ? AND condition IS ? *)
KeyMatch(it, a) ==
  /\ it.name = a.name
  /\ SqlIs(it.set_name, a.set_name)
  /\ SqlIs(it.card_number, a.card_number)
  /\ SqlIs(it.variance, a.variance)
  /\ SqlIs(it.grade, a.grade)
  /\ SqlIs(it.condition, a.condition)

(* cursor.fetchone() of the lookup: the ids that match, lowest rowid first *)
UpsertFound(its, a) == {i \in 1..Len(its) : KeyMatch(its[i], a)}

(* COALESCE(?, api_id) *)
Coalesce(new, old) == IF IsSome(new) THEN new ELSE old

(* SET cost_basis = COALESCE(?, cost_basis): a call without a cost keeps the
   stored one *)
UpsertCost_Coalesce(it, a) == Coalesce(a.cost_basis, it.cost_basis)

(* SET cost_basis = ? in the UPDATE branch: the value of the call, absent
   included *)
UpsertCost(it, a) == a.cost_basis

(* the UPDATE branch adding the quantity of the call to the stored one *)
UpsertUpdate_AddQuantity(it, a, t) ==
  [it EXCEPT
     !.rarity = a.rarity,
     !.quantity = @ + a.quantity,
     !.cost_basis = UpsertCost(it, a),
     !.is_sealed = a.is_sealed,
     !.api_id = Coalesce(a.api_id, it.api_id),
     !.portfolio_name = a.portfolio_name,
     !.notes = a.notes,
     !.date_added = a.date_added,
     !.updated_at = t]

(* the UPDATE branch *)
UpsertUpdate(it, a, t) ==
  [it EXCEPT
     !.rarity = a.rarity,
     !.quantity = a.quantity,
     !.cost_basis = UpsertCost(it, a),
     !.is_sealed = a.is_sealed,
     !.api_id = Coalesce(a.api_id, it.api_id),
     !.portfolio_name = a.portfolio_name,
     !.notes = a.notes,
     !.date_added = a.date_added,
     !.updated_at = t]

(* the INSERT branch; updated_at defaults to CURRENT_TIMESTAMP (created_at,
   which nothing reads, is left out) *)
UpsertInsert(a, t) ==
  [ name |-> a.name, set_name |-> a.set_name, card_number |-> a.card_number,
    rarity |-> a.rarity, variance |-> a.variance, quantity |-> a.quantity,
    cost_basis |-> a.cost_basis, is_sealed |-> a.is_sealed, api_id |-> a.api_id,
    portfolio_name |-> a.portfolio_name, grade |-> a.grade,
    condition |-> a.condition, notes |-> a.notes, date_added |-> a.date_added,
    updated_at |-> t ]

(* the id upsert_item returns *)
UpsertId(its, a) ==
  IF UpsertFound(its, a) # {} THEN Min(UpsertFound(its, a)) ELSE Len(its) + 1

(* the items table after upsert_item(a) at time t *)
UpsertItems(its, a, t) ==
  IF UpsertFound(its, a) # {}
  THEN [its EXCEPT ![UpsertId(its, a)] = UpsertUpdate(its[UpsertId(its, a)], a, t)]
  ELSE Append(its, UpsertInsert(a, t))

(* the keyword arguments import_csv passes: `x or None` on the text columns,
   api_id left at its default None *)
ImportArgs(row) ==
  [ name |-> row.name,
    set_name |-> OrNone(row.set_name),
    card_number |-> OrNone(row.card_number),
    rarity |-> OrNone(row.rarity),
    variance |-> OrNone(row.variance),
    quantity |-> row.quantity,
    cost_basis |-> row.cost_basis,
    is_sealed |-> is_sealed_product(row.category, row.name),
    api_id |-> None,
    portfolio_name |-> OrNone(row.portfolio_name),
    grade |-> OrNone(row.grade),
    condition |-> OrNone(row.condition),
    notes |-> OrNone(row.notes),
    date_added |-> OrNone(row.date_added) ]

(* a store that keeps the latest price only: the item's earlier observations
   are replaced *)
RecordPrice_Replace(ps, item_id, price, t) ==
  Append(SelectSeq(ps, LAMBDA p : p.item_id # item_id),
         [item_id |-> item_id, price |-> price, timestamp |-> t])

(* database.record_price: INSERT INTO prices (item_id, price); the timestamp
   defaults to CURRENT_TIMESTAMP *)
RecordPrice(ps, item_id, price, t) ==
  Append(ps, [item_id |-> item_id, price |-> price, timestamp |-> t])

(* the first of price_override and market_price that is greater than zero *)
ImportPrice_FirstValid(row) ==
  IF IsSome(row.price_override) /\ Get(row.price_override) > 0
  THEN row.price_override ELSE row.market_price

(* price = row["price_override"] or row["market_price"] *)
ImportPrice(row) ==
  IF Truthy(row.price_override) THEN row.price_override ELSE row.market_price

(* if price and price > 0 *)
ImportRecords(row) == Truthy(ImportPrice(row)) /\ Get(ImportPrice(row)) > 0

----------------------------------------------------------------------------
(* Writers *)

Idle == ~run.active

(* importer.import_csv, the loop body for one row of read_csv: a row without
   a name is reported and skipped; otherwise the row is upserted and, if it
   carries a usable price, one observation is recorded *)
ImportRow(row) ==
  LET a   == ImportArgs(row)
      id  == UpsertId(items, a)
  IN /\ Idle
     /\ IF row.name = ""
        THEN /\ UNCHANGED <<items, prices>>
             /\ last' = Ret("import_error", 0, FALSE, FALSE, 0)
        ELSE /\ id <= MaxItems
             /\ ImportRecords(row) => Len(prices) < MaxPrices
             /\ items' = UpsertItems(items, a, now)
             /\ prices' = IF ImportRecords(row)
                          THEN RecordPrice(prices, id, Get(ImportPrice(row)), now)
                          ELSE prices
             /\ last' = Ret("import_csv", id, UpsertFound(items, a) # {},
                            ImportRecords(row), a.quantity)
                          @@ [cost |-> a.cost_basis,
                              replaced |-> IF UpsertFound(items, a) # {}
                                           THEN items[id].cost_basis ELSE None]
     /\ UNCHANGED <<now, run>>

(* csv.DictReader gives None for the columns a short line does not reach; the
   model keeps it as a reserved text so that a column stays comparable *)
Absent == "<None>"

TextColumns ==
  {"portfolio_name", "category", "set_name", "name", "card_number", "rarity",
   "variance", "grade", "condition", "date_added", "notes"}

(* read_csv calls .strip() on every text column: on None it raises
   AttributeError *)
ReadRaises(rec) == \E c \in TextColumns : rec[c] = Absent

(* the counters import_csv returns; errors holds the row numbers reported *)
NoStats == [total |-> 0, imported |-> 0, cards |-> 0, sealed |-> 0, errors |-> <<>>]

(* one iteration of the loop of import_csv on the store st = [items, prices,
   stats], for row number n at time t; db_error says that upsert_item raises
   for this row (the database refuses the statement) *)
ImportOne(st, row, db_error, n, t) ==
  LET a  == ImportArgs(row)
      id == UpsertId(st.items, a)
  IN IF row.name = ""
     THEN [st EXCEPT !.stats.errors = Append(@, n)]
     ELSE IF db_error
     THEN [st EXCEPT !.stats.errors = Append(@, n)]
     ELSE [items  |-> UpsertItems(st.items, a, t),
           prices |-> IF ImportRecords(row)
                      THEN RecordPrice(st.prices, id, Get(ImportPrice(row)), t)
                      ELSE st.prices,
           stats  |-> [st.stats EXCEPT
                         !.imported = @ + 1,
                         !.sealed = IF a.is_sealed THEN @ + 1 ELSE @,
                         !.cards = IF a.is_sealed THEN @ ELSE @ + 1]]

RECURSIVE ImportLoop(_, _, _, _)
(* the loop of import_csv from line n of the file on; every iteration counts
   its line as imported or as an error *)
ImportLoop(st, lines, n, t) ==
  IF n > Len(lines) THEN st
  ELSE LET next == ImportOne(st, read_csv(lines[n].rec), lines[n].db_error, n, t)
       IN IF next.stats.imported + Len(next.stats.errors) = n
          THEN ImportLoop(next, lines, n + 1, t)
          ELSE next

(* importer.import_csv on a file of lines, each [rec, db_error]: the whole
   file is read first (rows = list(read_csv(filepath))), outside the try *)
import_csv(its, ps, lines, t) ==
  IF \E n \in 1..Len(lines) : ReadRaises(lines[n].rec)
  THEN [raised |-> TRUE, items |-> its, prices |-> ps, stats |-> NoStats]
  ELSE [raised |-> FALSE] @@
       ImportLoop([items |-> its, prices |-> ps,
                   stats |-> [NoStats EXCEPT !.total = Len(lines)]],
                  lines, 1, t)

(* one run of import_csv on a file *)
ImportCsv(lines) ==
  LET r == import_csv(items, prices, lines, now)
  IN /\ Idle
     /\ Len(r.items) <= MaxItems
     /\ Len(r.prices) <= MaxPrices
     /\ items' = r.items
     /\ prices' = r.prices
     /\ last' = [op |-> "import_file", raised |-> r.raised, stats |-> r.stats,
                 lines |-> lines]
     /\ UNCHANGED <<now, run>>

(* a direct call of database.upsert_item with arguments a *)
(* whether this call of upsert_item follows a call with the same arguments,
   and what that call did *)
Repeats(a) ==
  IF last.op = "upsert_item" /\ last.args = a
  THEN IF last.found THEN "update" ELSE "insert"
  ELSE "nothing"

UpsertCall(a) ==
  /\ Idle
  /\ UpsertId(items, a) <= MaxItems
  /\ items' = UpsertItems(items, a, now)
  /\ last' = Ret("upsert_item", UpsertId(items, a), UpsertFound(items, a) # {}, FALSE,
                 a.quantity) @@ [args |-> a, repeats |-> Repeats(a)]
  /\ UNCHANGED <<prices, now, run>>

(* UPDATE items SET cost_basis = ?, updated_at = ? WHERE id = ? *)
(* the UPDATE of update_item_cost_basis without its WHERE id = ? *)
SetCostBasis_AllRows(its, item_id, cost_basis, t) ==
  IF item_id \in 1..Len(its)
  THEN [j \in 1..Len(its) |-> [its[j] EXCEPT !.cost_basis = cost_basis, !.updated_at = t]]
  ELSE its

SetCostBasis(its, item_id, cost_basis, t) ==
  IF item_id \in 1..Len(its)
  THEN [its EXCEPT ![item_id] = [@ EXCEPT !.cost_basis = cost_basis, !.updated_at = t]]
  ELSE its

(* database.update_item_cost_basis, reached through POST /api/items/<id>/cost;
   returns affected > 0 *)
UpdateCostBasis(item_id, cost_basis) ==
  /\ Idle
  /\ items' = SetCostBasis(items, item_id, cost_basis, now)
  /\ last' = Ret("update_item_cost_basis", item_id, item_id \in ItemIds,
                 item_id \in ItemIds, 0)
             @@ [cost |-> IF item_id \in ItemIds THEN cost_basis ELSE None]
  /\ UNCHANGED <<prices, now, run>>

(* time passes: d seconds; the clock is kept within MaxSeconds of the start
   and of the start plus one day *)
Tick(d) ==
  /\ now + d <= DAY + MaxSeconds
  /\ (now + d) % DAY <= MaxSeconds
  /\ now' = now + d
  /\ UNCHANGED <<items, prices, run, last>>

----------------------------------------------------------------------------
(* The refresh run: cli.update with api.lookup_and_price_card *)

(* api.get_card_price on a card object, reduced to its two sources: the first
   truthy tcgplayer price, else the first truthy cardmarket price, else None *)
get_card_price(card) ==
  IF Truthy(card.tcgplayer) THEN card.tcgplayer
  ELSE IF Truthy(card.cardmarket) THEN card.cardmarket
  ELSE None

(* api.lookup_and_price_card.  resp is what the pricing API answers: by_id to
   get_card_by_id, search to search_card; each is None (no match or a
   transport failure) or Some(card) *)
lookup_and_price_card(existing_api_id, resp) ==
  LET c1   == IF IsSome(existing_api_id) THEN resp.by_id ELSE None
      card == IF IsSome(c1) THEN c1 ELSE resp.search
  IN IF IsNone(card) THEN [api_id |-> None, price |-> None]
     ELSE [api_id |-> Get(card).id, price |-> get_card_price(Get(card))]

(* UPDATE items SET api_id = ?, updated_at = ? WHERE id = ? *)
(* the UPDATE of update_item_api_id without its WHERE id = ? *)
update_item_api_id_AllRows(its, item_id, api_id, t) ==
  [j \in 1..Len(its) |-> [its[j] EXCEPT !.api_id = api_id, !.updated_at = t]]

update_item_api_id(its, item_id, api_id, t) ==
  [its EXCEPT ![item_id] = [@ EXCEPT !.api_id = api_id, !.updated_at = t]]

RECURSIVE InsertSorted(_, _, _)
(* one step of ORDER BY updated_at ASC, ties in rowid order *)
InsertSorted(its, sorted, i) ==
  IF sorted = <<>> THEN <<i>>
  ELSE IF its[Head(sorted)].updated_at <= its[i].updated_at
       THEN <<Head(sorted)>> \o InsertSorted(its, Tail(sorted), i)
       ELSE <<i>> \o sorted

RECURSIVE OrderByUpdatedAt(_, _)
OrderByUpdatedAt(its, n) ==
  IF n = 0 THEN <<>> ELSE InsertSorted(its, OrderByUpdatedAt(its, n - 1), n)

(* database.get_items_needing_update: the rows with is_sealed = 0, as read at
   the start of the run (id and api_id are what the run uses of them) *)
(* the SELECT without WHERE is_sealed = 0 *)
get_items_needing_update_All(its) ==
  LET ids == OrderByUpdatedAt(its, Len(its))
  IN [k \in 1..Len(ids) |-> [id |-> ids[k], api_id |-> its[ids[k]].api_id]]

get_items_needing_update(its) ==
  LET ids == SelectSeq(OrderByUpdatedAt(its, Len(its)), LAMBDA i : ~its[i].is_sealed)
  IN [k \in 1..Len(ids) |-> [id |-> ids[k], api_id |-> its[ids[k]].api_id]]

(* cli.update up to its loop; with no cards the command returns at once *)
RefreshStart ==
  /\ Idle
  /\ get_items_needing_update(items) # <<>>
  /\ run' = [active |-> TRUE, cards |-> get_items_needing_update(items),
             updated |-> 0, failed |-> 0, base |-> Len(prices)]
  /\ last' = Ret("update", 0, FALSE, FALSE, 0)
  /\ UNCHANGED <<items, prices, now>>

(* the api_id is written whenever the lookup gives one *)
FillsApiId_Always(item, r) == IsSome(r.api_id)

(* if api_id and not item["api_id"] *)
FillsApiId(item, r) == IsSome(r.api_id) /\ IsNone(item.api_id)

(* a card without a price ends the loop uncounted *)
Counted_FailureStops(r, priced) ==
  IF priced THEN [r EXCEPT !.cards = Tail(@), !.updated = @ + 1]
  ELSE [r EXCEPT !.cards = <<>>]

(* the counters of cli.update after one card: updated += 1 or failed += 1,
   and the loop goes on to the next card *)
Counted(r, priced) ==
  IF priced THEN [r EXCEPT !.cards = Tail(@), !.updated = @ + 1]
  ELSE [r EXCEPT !.cards = Tail(@), !.failed = @ + 1]

(* one iteration of the loop of cli.update, for the next card of the run *)
RefreshStep(resp) ==
  LET item == Head(run.cards)
      r    == lookup_and_price_card(item.api_id, resp)
  IN /\ run.active
     /\ run.cards # <<>>
     /\ IF IsSome(r.price)
        THEN /\ Len(prices) < MaxPrices
             /\ items' = IF FillsApiId(item, r)
                         THEN update_item_api_id(items, item.id, r.api_id, now)
                         ELSE items
             /\ prices' = RecordPrice(prices, item.id, Get(r.price), now)
             /\ run' = Counted(run, TRUE)
        ELSE /\ UNCHANGED <<items, prices>>
             /\ run' = Counted(run, FALSE)
     /\ last' = Ret("update_step", item.id, TRUE, IsSome(r.price), 0)
     /\ UNCHANGED now

(* the loop is over and the command prints its counts and returns *)
(* the process is terminated during the run: between two cards, or, with
   filled, inside the iteration of the next card after update_item_api_id
   has committed and before record_price; what was committed stays *)
RefreshInterrupt(resp, filled) ==
  /\ run.active
  /\ IF filled
     THEN LET item == Head(run.cards)
              r    == lookup_and_price_card(item.api_id, resp)
          IN /\ run.cards # <<>>
             /\ IsSome(r.price) /\ FillsApiId(item, r)
             /\ items' = update_item_api_id(items, item.id, r.api_id, now)
             /\ last' = [op |-> "interrupted", id |-> item.id, base |-> run.base,
                         pending |-> [k \in 1..(Len(run.cards) - 1) |-> run.cards[k + 1].id]]
     ELSE /\ items' = items
          /\ last' = [op |-> "interrupted", id |-> 0, base |-> run.base,
                      pending |-> [k \in 1..Len(run.cards) |-> run.cards[k].id]]
  /\ run' = NoRun
  /\ UNCHANGED <<prices, now>>

RefreshEnd ==
  /\ run.active
  /\ run.cards = <<>>
  /\ run' = NoRun
  /\ last' = Ret("update_done", 0, FALSE, FALSE, 0)
  /\ UNCHANGED <<items, prices, now>>

----------------------------------------------------------------------------
(* Readers: database.get_all_items *)

(* the ids of the observations of item i *)
PricesOf(ps, i) == {k \in 1..Len(ps) : ps[k].item_id = i}

(* SELECT MAX(timestamp) over the rows K; only used when K is not empty *)
MaxTimestamp(ps, K) == Max({ps[k].timestamp : k \in K})

(* LEFT JOIN prices p1 ON i.id = p1.item_id AND p1.timestamp =
   (SELECT MAX(timestamp) FROM prices WHERE item_id = i.id):
   every observation of i that carries the greatest timestamp *)
JoinCurrent(ps, i) ==
  {k \in PricesOf(ps, i) : ps[k].timestamp = MaxTimestamp(ps, PricesOf(ps, i))}

(* the observations of i strictly older than timestamp ts *)
OlderThan(ps, i, ts) == {k \in PricesOf(ps, i) : ps[k].timestamp < ts}

(* LEFT JOIN prices p2 ON i.id = p2.item_id AND p2.timestamp =
   (SELECT MAX(timestamp) FROM prices WHERE item_id = i.id
    AND timestamp < p1.timestamp) *)
JoinPrevious(ps, i, k1) ==
  {k \in OlderThan(ps, i, ps[k1].timestamp) :
     ps[k].timestamp = MaxTimestamp(ps, OlderThan(ps, i, ps[k1].timestamp))}

(* one result row: the item's columns, its id, and the joined columns *)
ItemRow(its, ps, i, k1, k2) ==
  its[i] @@ [ id |-> i,
              current_price   |-> IF k1 = 0 THEN None ELSE Some(ps[k1].price),
              price_timestamp |-> IF k1 = 0 THEN None ELSE Some(ps[k1].timestamp),
              previous_price  |-> IF k2 = 0 THEN None ELSE Some(ps[k2].price) ]

RECURSIVE MapPrevious(_, _, _, _, _)
MapPrevious(its, ps, i, k1, k2s) ==
  IF k2s = <<>> THEN <<>>
  ELSE <<ItemRow(its, ps, i, k1, Head(k2s))>> \o MapPrevious(its, ps, i, k1, Tail(k2s))

RECURSIVE MapCurrent(_, _, _, _)
MapCurrent(its, ps, i, k1s) ==
  IF k1s = <<>> THEN <<>>
  ELSE (IF JoinPrevious(ps, i, Head(k1s)) = {}
        THEN <<ItemRow(its, ps, i, Head(k1s), 0)>>
        ELSE MapPrevious(its, ps, i, Head(k1s),
                         SetToSeq(JoinPrevious(ps, i, Head(k1s)))))
       \o MapCurrent(its, ps, i, Tail(k1s))

(* the result rows of item i: a LEFT JOIN yields one row with NULL columns
   when nothing matches, and one row per match otherwise *)
RowsOfItem(its, ps, i) ==
  IF PricesOf(ps, i) = {} THEN <<ItemRow(its, ps, i, 0, 0)>>
  ELSE MapCurrent(its, ps, i, SetToSeq(JoinCurrent(ps, i)))

RECURSIVE AllRows(_, _, _)
AllRows(its, ps, n) ==
  IF n = 0 THEN <<>> ELSE AllRows(its, ps, n - 1) \o RowsOfItem(its, ps, n)

(* database.get_all_items (ORDER BY i.name is kept as rowid order) *)
get_all_items(its, ps) == AllRows(its, ps, Len(its))

----------------------------------------------------------------------------
(* Readers: database.get_summary_stats *)

(* Python `x if x else 0` on the result of SUM(): NULL and 0 give 0 *)
OrZero(o) == IF Truthy(o) THEN Get(o) ELSE 0

RECURSIVE SumOver(_, _)
(* the sum of col[k] over the rows K *)
SumOver(K, col) ==
  IF K = {} THEN 0
  ELSE LET k == CHOOSE x \in K : TRUE IN col[k] + SumOver(K \ {k}, col)

(* SUM(col) over the rows DOMAIN col; SUM() is NULL over no rows *)
SqlSum(col) == IF DOMAIN col = {} THEN None ELSE Some(SumOver(DOMAIN col, col))

(* SELECT SUM(i.quantity * p.price) FROM items i JOIN prices p
   ON i.id = p.item_id WHERE p.timestamp = (SELECT MAX(timestamp)
   FROM prices WHERE item_id = i.id) *)
TotalValueRows(its, ps) ==
  {k \in 1..Len(ps) : k \in JoinCurrent(ps, ps[k].item_id)}

TotalValueSum(its, ps) ==
  SqlSum([k \in TotalValueRows(its, ps) |-> its[ps[k].item_id].quantity * ps[k].price])

(* SELECT SUM(quantity * cost_basis) FROM items WHERE cost_basis IS NOT NULL *)
TotalCostSum(its) ==
  SqlSum([i \in {j \in 1..Len(its) : IsSome(its[j].cost_basis)} |->
            its[i].quantity * Get(its[i].cost_basis)])

(* ... WHERE p.timestamp = (SELECT MAX(timestamp) FROM prices
   WHERE item_id = i.id AND timestamp < datetime('now', '-1 day')) *)
PrevValueRows(its, ps, t) ==
  {k \in 1..Len(ps) :
     /\ OlderThan(ps, ps[k].item_id, t - DAY) # {}
     /\ ps[k].timestamp = MaxTimestamp(ps, OlderThan(ps, ps[k].item_id, t - DAY))}

PrevValueSum(its, ps, t) ==
  SqlSum([k \in PrevValueRows(its, ps, t) |-> its[ps[k].item_id].quantity * ps[k].price])

(* a / b * 100, kept exact *)
Pct(a, b) == [num |-> a * 100, den |-> b]

PctZero == [num |-> 0, den |-> 1]

(* total_value - total_cost if total_cost else None *)
TotalProfit(total_value, total_cost) ==
  IF total_cost # 0 THEN Some(total_value - total_cost) ELSE None

(* the baseline without its fallback: 0 when no observation is old enough *)
PrevValue_NoFallback(prev_sum, total_value) ==
  IF Truthy(prev_sum) THEN Get(prev_sum) ELSE 0

(* row["prev_value"] if row and row["prev_value"] else total_value *)
PrevValue(prev_sum, total_value) ==
  IF Truthy(prev_sum) THEN Get(prev_sum) ELSE total_value

get_summary_stats(its, ps, t) ==
  LET total_value == OrZero(TotalValueSum(its, ps))
      total_cost  == OrZero(TotalCostSum(its))
      prev_value  == PrevValue(PrevValueSum(its, ps, t), total_value)
  IN [ item_count |-> Len(its),
       total_quantity |-> SqlSum([i \in 1..Len(its) |-> its[i].quantity]),
       sealed_count |-> SqlSum([i \in 1..Len(its) |-> IF its[i].is_sealed THEN 1 ELSE 0]),
       card_count |-> SqlSum([i \in 1..Len(its) |-> IF its[i].is_sealed THEN 0 ELSE 1]),
       total_value |-> total_value,
       total_cost |-> total_cost,
       prev_value |-> prev_value,
       daily_change |-> total_value - prev_value,
       daily_change_pct |-> IF prev_value # 0
                            THEN Pct(total_value - prev_value, prev_value)
                            ELSE PctZero,
       total_profit |-> TotalProfit(total_value, total_cost) ]

----------------------------------------------------------------------------
(* Readers: web.analyze_portfolio, the per-item derivation *)

(* (x or 0) *)
Or0(o) == IF Truthy(o) THEN Get(o) ELSE 0

(* the test without cost_basis > 0 *)
HasPnl_AnyCost(row) ==
  Truthy(row.cost_basis) /\ Truthy(row.current_price)

(* if item["cost_basis"] and item["cost_basis"] > 0 and item["current_price"] *)
HasPnl(row) ==
  Truthy(row.cost_basis) /\ Get(row.cost_basis) > 0 /\ Truthy(row.current_price)

AnalyzeItem(row) ==
  LET total_value == Or0(row.current_price) * row.quantity
      total_cost  == Or0(row.cost_basis) * row.quantity
      moved       == Truthy(row.previous_price) /\ Truthy(row.current_price)
      change      == IF moved THEN Get(row.current_price) - Get(row.previous_price) ELSE 0
  IN row @@
     [ total_value |-> total_value,
       change      |-> change,
       change_pct  |-> IF moved THEN Pct(change, Get(row.previous_price)) ELSE PctZero,
       total_cost  |-> total_cost,
       pnl         |-> IF HasPnl(row) THEN Some(total_value - total_cost) ELSE None,
       pnl_pct     |-> IF HasPnl(row)
                       THEN Some(Pct(Get(row.current_price) - Get(row.cost_basis),
                                     Get(row.cost_basis)))
                       ELSE None ]

(* the "items" list of the analysis result *)
AnalyzedItems(its, ps) ==
  [k \in 1..Len(get_all_items(its, ps)) |-> AnalyzeItem(get_all_items(its, ps)[k])]

----------------------------------------------------------------------------
(* Readers: web.analyze_portfolio, the aggregates *)

(* a / b < c / d for ratios kept as pairs, whatever the signs of b and d *)
RatioLess(p, q) ==
  LET sp == IF p.den < 0 THEN -1 ELSE 1
      sq == IF q.den < 0 THEN -1 ELSE 1
  IN p.num * sp * q.den * sq < q.num * sq * p.den * sp

(* the rank of ratio p among the ratios all: an integer sort key that orders
   as the ratios do *)
Rank(p, all) == Cardinality({k \in 1..Len(all) : RatioLess(all[k], p)})

RECURSIVE InsertByKey(_, _, _, _)
(* one step of a stable sort of positions by integer key; with desc the
   greater key comes first (sorted(..., reverse=True)), equal keys keep their
   order *)
InsertByKey(keys, sorted, i, desc) ==
  IF sorted = <<>> THEN <<i>>
  ELSE IF (IF desc THEN keys[Head(sorted)] >= keys[i] ELSE keys[Head(sorted)] <= keys[i])
       THEN <<Head(sorted)>> \o InsertByKey(keys, Tail(sorted), i, desc)
       ELSE <<i>> \o sorted

RECURSIVE SortedPositions(_, _, _)
SortedPositions(keys, n, desc) ==
  IF n = 0 THEN <<>> ELSE InsertByKey(keys, SortedPositions(keys, n - 1, desc), n, desc)

(* sorted(seq, key=..., reverse=desc), keys[k] being the key of seq[k] *)
Sorted(seq, keys, desc) ==
  LET pos == SortedPositions(keys, Len(seq), desc)
  IN [k \in 1..Len(seq) |-> seq[pos[k]]]

(* seq[:n] *)
Take(seq, n) == SubSeq(seq, 1, Min({n, Len(seq)}))

RECURSIVE SumField(_)
(* sum(i["total_value"] for i in rows) *)
SumField(rows) ==
  IF rows = <<>> THEN 0 ELSE Head(rows).total_value + SumField(Tail(rows))

(* (part / total_value * 100) if total_value else 0 *)
PctOf(part, total_value) == IF total_value # 0 THEN Pct(part, total_value) ELSE PctZero

(* the items left in the order the store returned them *)
SortedByValue_StoreOrder(rows) == rows

(* sorted(items, key=lambda x: x["total_value"], reverse=True) *)
SortedByValue(rows) == Sorted(rows, [k \in 1..Len(rows) |-> rows[k].total_value], TRUE)

(* the slice the concentration sum is taken over *)
TopSlice(rows) == Take(SortedByValue(rows), 5)

(* the change_pct of every row, and of a list of rows the sort keys *)
ChangeKeys(rows) ==
  [k \in 1..Len(rows) |-> Rank(rows[k].change_pct, [j \in 1..Len(rows) |-> rows[j].change_pct])]

Gainers(rows) ==
  LET up == SelectSeq(rows, LAMBDA r : RatioLess(PctZero, r.change_pct))
  IN Sorted(up, ChangeKeys(up), TRUE)

(* the losers sorted with reverse=True, the least negative first *)
Losers_LeastFirst(rows) ==
  LET down == SelectSeq(rows, LAMBDA r : RatioLess(r.change_pct, PctZero))
  IN Sorted(down, ChangeKeys(down), TRUE)

Losers(rows) ==
  LET down == SelectSeq(rows, LAMBDA r : RatioLess(r.change_pct, PctZero))
  IN Sorted(down, ChangeKeys(down), FALSE)

(* the movers lists as the analysis publishes them *)
Movers(rows) == [gainers |-> Take(Gainers(rows), 5), losers |-> Take(Losers(rows), 5)]

PnlKeys(rows) ==
  [k \in 1..Len(rows) |-> Rank(Get(rows[k].pnl_pct), [j \in 1..Len(rows) |-> Get(rows[j].pnl_pct)])]

WithPnl(rows) == SelectSeq(rows, LAMBDA r : IsSome(r.pnl_pct))

Performers(rows) ==
  [best  |-> Take(Sorted(WithPnl(rows), PnlKeys(WithPnl(rows)), TRUE), 5),
   worst |-> Take(Sorted(WithPnl(rows), PnlKeys(WithPnl(rows)), FALSE), 5)]

(* item["set_name"] or "Unknown" *)
SetOf(r) == IF IsSome(r.set_name) /\ Get(r.set_name) # "" THEN Get(r.set_name) ELSE "Unknown"

RECURSIVE SetNames(_)
(* the keys of the dict sets, in insertion order *)
SetNames(rows) ==
  IF rows = <<>> THEN <<>>
  ELSE LET before == SetNames(SubSeq(rows, 1, Len(rows) - 1))
           name   == SetOf(rows[Len(rows)])
       IN IF \E k \in 1..Len(before) : before[k] = name THEN before
          ELSE Append(before, name)

RECURSIVE SumQuantity(_)
SumQuantity(rows) ==
  IF rows = <<>> THEN 0 ELSE Head(rows).quantity + SumQuantity(Tail(rows))

(* the dict sets as a list of entries *)
SetEntries(rows) ==
  [k \in 1..Len(SetNames(rows)) |->
     LET mine == SelectSeq(rows, LAMBDA r : SetOf(r) = SetNames(rows)[k])
     IN [name |-> SetNames(rows)[k], count |-> SumQuantity(mine), value |-> SumField(mine)]]

(* sorted(sets.items(), key=lambda x: x[1]["value"], reverse=True)[:10] *)
TopSets(rows) ==
  Take(Sorted(SetEntries(rows), [k \in 1..Len(SetEntries(rows)) |-> SetEntries(rows)[k].value],
              TRUE), 10)

(* the result for an empty portfolio *)
EmptyAnalysis(stats) ==
  [ error |-> TRUE, items |-> <<>>, total_value |-> 0, total_cost |-> 0,
    total_profit |-> None, item_count |-> 0, total_quantity |-> Some(0),
    daily_change |-> 0, daily_change_pct |-> PctZero,
    composition |-> [cards  |-> [count |-> 0, value |-> 0, pct |-> PctZero],
                     sealed |-> [count |-> 0, value |-> 0, pct |-> PctZero]],
    concentration |-> [top_5_value |-> 0, top_5_pct |-> PctZero, top_holdings |-> <<>>],
    movers |-> [gainers |-> <<>>, losers |-> <<>>],
    performers |-> [best |-> <<>>, worst |-> <<>>],
    sets |-> <<>> ]

(* web.analyze_portfolio on the rows of get_all_items and the summary *)
analyze_portfolio(rows0, stats) ==
  IF rows0 = <<>> THEN EmptyAnalysis(stats)
  ELSE
  LET rows         == [k \in 1..Len(rows0) |-> AnalyzeItem(rows0[k])]
      cards        == SelectSeq(rows, LAMBDA r : ~r.is_sealed)
      sealed       == SelectSeq(rows, LAMBDA r : r.is_sealed)
      total_value  == stats.total_value
      cards_value  == SumField(cards)
      sealed_value == SumField(sealed)
      top_5_value  == SumField(TopSlice(rows))
  IN [ error |-> FALSE,
       total_value |-> total_value,
       total_cost |-> stats.total_cost,
       total_profit |-> stats.total_profit,
       item_count |-> stats.item_count,
       total_quantity |-> stats.total_quantity,
       daily_change |-> stats.daily_change,
       daily_change_pct |-> stats.daily_change_pct,
       composition |->
         [cards  |-> [count |-> Len(cards), value |-> cards_value,
                      pct |-> PctOf(cards_value, total_value)],
          sealed |-> [count |-> Len(sealed), value |-> sealed_value,
                      pct |-> PctOf(sealed_value, total_value)]],
       concentration |->
         [top_5_value |-> top_5_value,
          top_5_pct |-> PctOf(top_5_value, total_value),
          top_holdings |-> Take(SortedByValue(rows), 10)],
       movers |-> Movers(rows),
       performers |-> Performers(rows),
       sets |-> TopSets(rows),
       items |-> rows ]

----------------------------------------------------------------------------
(* Readers: web.generate_recommendations *)

(* ratio p > n, n an integer *)
PctAbove(p, n) == RatioLess([num |-> n, den |-> 1], p)

(* ratio p < n *)
PctBelow(p, n) == RatioLess(p, [num |-> n, den |-> 1])

(* len([i for i in analysis["items"] if i.get("cost_basis")]) *)
ItemsWithCost(analysis) ==
  Len(SelectSeq(analysis.items, LAMBDA r : Truthy(r.cost_basis)))

(* cost_coverage < n/10, cost_coverage being items_with_cost / len(items),
   or 0 when there are no items *)
CoverageBelow(analysis, n) ==
  IF analysis.items = <<>> THEN 0 < n
  ELSE ItemsWithCost(analysis) * 10 < n * Len(analysis.items)

(* the health score after the ROI bonus applied without its cap *)
RoiAdjust_NoCap(health, total_value, total_cost) ==
  IF total_cost # 0 /\ total_cost > 0
  THEN IF (total_value - total_cost) * 100 > 20 * total_cost THEN health + 10
       ELSE IF (total_value - total_cost) * 100 < -10 * total_cost THEN health - 10
       ELSE health
  ELSE health

(* if total_cost and total_cost > 0: roi > 20 gives min(100, health + 10),
   roi < -10 gives health - 10 *)
RoiAdjust(health, total_value, total_cost) ==
  IF total_cost # 0 /\ total_cost > 0
  THEN IF (total_value - total_cost) * 100 > 20 * total_cost THEN Min({100, health + 10})
       ELSE IF (total_value - total_cost) * 100 < -10 * total_cost THEN health - 10
       ELSE health
  ELSE health

(* the health score: 100 less the penalties, then the ROI adjustment *)
HealthScore(analysis) ==
  LET h1 == 100 - (IF PctAbove(analysis.concentration.top_5_pct, 60) THEN 20 ELSE 0)
      h2 == h1 - (IF CoverageBelow(analysis, 5) THEN 15 ELSE 0)
      h3 == h2 - (IF PctAbove(analysis.composition.sealed.pct, 80) THEN 10 ELSE 0)
  IN RoiAdjust(h3, analysis.total_value, analysis.total_cost)

(* one entry of the list; title is the fixed part of the entry's title *)
Entry(type, title) == [type |-> type, title |-> title]

HealthEntry(analysis) ==
  LET health == HealthScore(analysis)
  IN [type |-> IF health >= 80 THEN "success" ELSE IF health >= 60 THEN "warning" ELSE "danger",
      title |-> "Portfolio Health", health |-> health]

(* the momentum advisory, from the lengths of the published movers lists *)
MomentumEntries(analysis) ==
  LET gainers_count == Len(analysis.movers.gainers)
      losers_count  == Len(analysis.movers.losers)
  IN IF gainers_count > losers_count THEN <<Entry("success", "Positive Momentum")>>
     ELSE IF losers_count > gainers_count /\ losers_count > 3
          THEN <<Entry("warning", "Market Pressure")>>
          ELSE <<>>

(* item["pnl_pct"] and item["pnl_pct"] > 50, for performers.best[:2] *)
ProfitEntries(analysis) ==
  LET best == SelectSeq(Take(analysis.performers.best, 2),
                        LAMBDA r : Get(r.pnl_pct).num # 0 /\ PctAbove(Get(r.pnl_pct), 50))
  IN [k \in 1..Len(best) |-> Entry("success", "Take Profits?")]

(* item["pnl_pct"] and item["pnl_pct"] < -25, for performers.worst[:1] *)
LossEntries(analysis) ==
  LET worst == SelectSeq(Take(analysis.performers.worst, 1),
                         LAMBDA r : Get(r.pnl_pct).num # 0 /\ PctBelow(Get(r.pnl_pct), -25))
  IN [k \in 1..Len(worst) |-> Entry("danger", "Review")]

ConcentrationEntries(analysis) ==
  IF PctAbove(analysis.concentration.top_5_pct, 50)
  THEN <<Entry("warning", "Concentration Risk")>> ELSE <<>>

CostEntries(analysis) ==
  IF CoverageBelow(analysis, 7) THEN <<Entry("info", "Track Your Costs")>> ELSE <<>>

(* the entries of generate_recommendations returned without the cut to 6 *)
generate_recommendations_NoCap(analysis) ==
  IF analysis.total_value = 0 THEN <<Entry("info", "Get Started")>>
  ELSE <<HealthEntry(analysis)>> \o MomentumEntries(analysis) \o ProfitEntries(analysis)
       \o LossEntries(analysis) \o ConcentrationEntries(analysis) \o CostEntries(analysis)

(* web.generate_recommendations *)
generate_recommendations(analysis) ==
  IF analysis.total_value = 0 THEN <<Entry("info", "Get Started")>>
  ELSE Take(<<HealthEntry(analysis)>> \o MomentumEntries(analysis) \o ProfitEntries(analysis)
            \o LossEntries(analysis) \o ConcentrationEntries(analysis)
            \o CostEntries(analysis), 6)

(* GET /api/analysis: the analysis of the store and its recommendations *)
ApiAnalysis ==
  /\ last' = [op |-> "api_analysis",
              analysis |-> analyze_portfolio(get_all_items(items, prices),
                                             get_summary_stats(items, prices, now)),
              recommendations |->
                generate_recommendations(
                  analyze_portfolio(get_all_items(items, prices),
                                    get_summary_stats(items, prices, now)))]
  /\ UNCHANGED <<items, prices, now, run>>

----------------------------------------------------------------------------
(* The pricing API client: api._rate_limit, api._make_request and the
   requests of api.lookup_and_price_card, one step per request.  Here the
   clock `now` is time.time() in ticks of 0.05 s; `last` holds the globals
   of the module and what the latest request did; `run` is the position of
   cli.update in its cards and of the lookup in its requests. *)

(* no sleep at all *)
SleepFor_Nothing(t, last_call_time) == 0

(* elapsed = now - _last_call_time; the time _rate_limit sleeps:
   MIN_CALL_INTERVAL - elapsed if elapsed < MIN_CALL_INTERVAL *)
SleepFor(t, last_call_time) ==
  IF t - last_call_time < MIN_CALL_INTERVAL
  THEN MIN_CALL_INTERVAL - (t - last_call_time)
  ELSE 0

(* the request a lookup begins with: by id when the card has a catalog id,
   else the search *)
FirstRequest(card) == IF IsSome(card.api_id) THEN "by_id" ELSE "search"

(* a looser search that returns no cards is made again *)
NextRequest_Again(at, answer) ==
  IF at = "by_id" THEN (IF answer = "card" THEN "none" ELSE "search")
  ELSE IF answer = "empty" THEN "loose"
  ELSE "none"

(* the request that follows a request of the lookup, "none" when the lookup
   returns: get_card_by_id gives a card or None (no data, or a
   RequestException); search_card returns on a match or on a
   RequestException and makes the looser search when the first result is
   empty *)
NextRequest(at, answer) ==
  IF at = "by_id" THEN (IF answer = "card" THEN "none" ELSE "search")
  ELSE IF at = "search" /\ answer = "empty" THEN "loose"
  ELSE "none"

Answers == {"card", "empty", "error"}

(* the module as loaded: _call_count = 0, _last_call_time = 0, and a clock
   far from 0 *)
NoCalls ==
  [op |-> "load", last_call_time |-> 0, call_count |-> 0, previous |-> 0,
   sent |-> 0, slept |-> 0, path |-> <<>>, returned |-> FALSE, api_id |-> None]

Waiting == [active |-> FALSE, cards |-> <<>>, at |-> "none", limited |-> FALSE]

InitPacing ==
  /\ items = <<>>
  /\ prices = <<>>
  /\ now = MIN_CALL_INTERVAL
  /\ run = Waiting
  /\ last = NoCalls

(* cli.update begins its loop over cards, each with or without a catalog id *)
PaceStart(cards) ==
  /\ ~run.active
  /\ run' = [active |-> TRUE, cards |-> cards, at |-> FirstRequest(Head(cards)),
             limited |-> FALSE]
  /\ last' = [last EXCEPT !.op = "update"]
  /\ UNCHANGED <<items, prices, now>>

(* _rate_limit at the head of _make_request: it reads the clock, sleeps out
   the remainder (time.sleep returns after the time asked or later) and
   records the time *)
RateLimit(late) ==
  LET woke == now + SleepFor(now, last.last_call_time) + late
  IN /\ run.active
     /\ ~run.limited
     /\ woke <= MaxTicks
     /\ now' = woke
     /\ run' = [run EXCEPT !.limited = TRUE]
     /\ last' = [last EXCEPT !.op = "_rate_limit",
                             !.previous = last.last_call_time,
                             !.slept = SleepFor(now, last.last_call_time),
                             !.last_call_time = woke,
                             !.path = IF last.returned THEN <<>> ELSE @,
                             !.returned = FALSE]
     /\ UNCHANGED <<items, prices>>

(* requests.get and what follows it in the lookup: the request is issued, the
   answer decides the next request of this card, or the lookup returns and
   the loop goes to the next card *)
Request(answer) ==
  LET next == NextRequest(run.at, answer)
      rest == Tail(run.cards)
  IN /\ run.active
     /\ run.limited
     /\ last' = [last EXCEPT !.op = "request",
                             !.sent = now,
                             !.call_count = IF answer = "error" THEN @ ELSE @ + 1,
                             !.path = Append(@, run.at),
                             !.returned = (next = "none"),
                             !.api_id = Head(run.cards).api_id]
     /\ run' = IF next # "none" THEN [run EXCEPT !.at = next, !.limited = FALSE]
               ELSE IF rest = <<>> THEN Waiting
               ELSE [run EXCEPT !.cards = rest, !.at = FirstRequest(Head(rest)),
                                !.limited = FALSE]
     /\ UNCHANGED <<items, prices, now>>

(* time passes between two steps of the process *)
PaceTick ==
  /\ now < MaxTicks
  /\ now' = now + 1
  /\ UNCHANGED <<items, prices, run, last>>

----------------------------------------------------------------------------
(* Inputs *)

(* a CSV record with every column blank *)
BlankRec ==
  [ portfolio_name |-> "", category |-> "", set_name |-> "", name |-> "",
    card_number |-> "", rarity |-> "", variance |-> "", grade |-> "",
    condition |-> "", cost |-> <<>>, quantity |-> <<>>, market_price |-> <<>>,
    price_override |-> <<>>, date_added |-> "", notes |-> "" ]

(* the arguments of upsert_item at their defaults, for a given name *)
DefaultArgs(name) ==
  [ name |-> name, set_name |-> None, card_number |-> None, rarity |-> None,
    variance |-> None, quantity |-> 1, cost_basis |-> None, is_sealed |-> FALSE,
    api_id |-> None, portfolio_name |-> None, grade |-> None, condition |-> None,
    notes |-> None, date_added |-> None ]

(* a card object of the pricing API *)
Card(id, tcgplayer, cardmarket) ==
  [id |-> id, tcgplayer |-> tcgplayer, cardmarket |-> cardmarket]

(* what the pricing API answers to one lookup *)
Responses ==
  {[by_id |-> b, search |-> s] :
     b \in {None, Some(Card(Some("a"), Some(500), None))},
     s \in {None,
            Some(Card(Some("a"), Some(500), None)),
            Some(Card(Some("b"), Some(0), Some(-100)))}}

TickSteps == {1, DAY}

(* Spec: every writer.  The CSV records are a card and a sealed box, with and
   without a market price, and a record with no product name; upsert_item is
   also called directly; cost-basis edits name a known or an unknown id and
   carry a value or JSON null; the clock moves by seconds. *)
Recs ==
  {[BlankRec EXCEPT !.name = n, !.market_price = m] :
     n \in {"", "Pikachu", "Booster Box"},
     m \in {<<>>, <<"$", "5">>}}

Rows == {read_csv(rec) : rec \in Recs}

Calls ==
  {[DefaultArgs("Pikachu") EXCEPT !.api_id = a] : a \in {None, Some("b")}}

CostIds == 1..(MaxItems + 1)

CostValues == {None, Some(300)}

Next ==
  \/ \E row \in Rows : ImportRow(row)
  \/ \E a \in Calls : UpsertCall(a)
  \/ \E i \in CostIds, c \in CostValues : UpdateCostBasis(i, c)
  \/ RefreshStart
  \/ \E resp \in Responses : RefreshStep(resp)
  \/ RefreshEnd
  \/ Tick(1)

Spec == Init /\ [][Next]_vars

(* SpecIdentity: the natural key.  Records differ in name, set and condition
   (blank or not) and in quantity; upsert_item is also called directly, with
   and without an api_id. *)
IdentityRecs ==
  {[BlankRec EXCEPT !.name = n, !.set_name = s, !.condition = c, !.quantity = q] :
     n \in {"", "Pikachu", "Booster Box"},
     s \in {"", "Base"},
     c \in {"", "Near Mint"},
     q \in {<<>>, <<"2">>}}

IdentityRows == {read_csv(rec) : rec \in IdentityRecs}

IdentityCalls ==
  {[DefaultArgs("Pikachu") EXCEPT !.api_id = a, !.quantity = 4] :
     a \in {None, Some("a"), Some("b")}}

NextIdentity ==
  \/ \E row \in IdentityRows : ImportRow(row)
  \/ \E a \in IdentityCalls : UpsertCall(a)

SpecIdentity == Init /\ [][NextIdentity]_vars

(* SpecQuantity: the quantity column.  Two holdings, imported and re-imported
   with a blank, numeric, zero, negative or non-numeric quantity text. *)
QuantityTexts == {<<>>, <<" ">>, <<"x">>, <<"0">>, <<"-", "3">>, <<"2">>, <<" ", "7">>}

QuantityRecs ==
  {[BlankRec EXCEPT !.name = n, !.quantity = q] :
     n \in {"Pikachu", "Booster Box"}, q \in QuantityTexts}

QuantityRows == {read_csv(rec) : rec \in QuantityRecs}

NextQuantity == \E row \in QuantityRows : ImportRow(row)

SpecQuantity == Init /\ [][NextQuantity]_vars

(* SpecClock: observations over time.  Two holdings imported with one of two
   market prices or none; the clock moves by a second or by a day. *)
ClockRecs ==
  {[BlankRec EXCEPT !.name = n, !.market_price = m, !.quantity = <<"2">>] :
     n \in {"Pikachu", "Booster Box"},
     m \in {<<>>, <<"$", "5">>, <<"5", ".", "5", "0">>}}

ClockRows == {read_csv(rec) : rec \in ClockRecs}

NextClock ==
  \/ \E row \in ClockRows : ImportRow(row)
  \/ \E d \in TickSteps : Tick(d)

SpecClock == Init /\ [][NextClock]_vars

(* SpecCost: cost bases and quantities.  Records carry a cost text, a quantity
   text and possibly a market price; cost bases are also edited. *)
CostTexts == {<<>>, <<"$", "3">>, <<"-", "3">>, <<"0">>}

CostRecs ==
  {[BlankRec EXCEPT !.name = n, !.cost = c, !.quantity = q, !.market_price = m] :
     n \in {"Pikachu", "Booster Box"},
     c \in CostTexts,
     q \in {<<>>, <<"0">>},
     m \in {<<>>, <<"$", "5">>}}

CostRows == {read_csv(rec) : rec \in CostRecs}

CostEdits == {None, Some(450), Some(0)}

NextCost ==
  \/ \E row \in CostRows : ImportRow(row)
  \/ \E i \in CostIds, c \in CostEdits : UpdateCostBasis(i, c)

SpecCost == Init /\ [][NextCost]_vars

(* SpecImport: whole files.  A file has up to MaxRows lines; a line is a card
   with a market price, a sealed box, a line without a product name, a line
   cut short before its last columns, or a card the database refuses. *)
Line(rec, db_error) == [rec |-> rec, db_error |-> db_error]

ImportLines ==
  { Line([BlankRec EXCEPT !.name = "Pikachu", !.market_price = <<"$", "5">>], FALSE),
    Line([BlankRec EXCEPT !.name = "Booster Box"], FALSE),
    Line(BlankRec, FALSE),
    Line([BlankRec EXCEPT !.name = "Eevee", !.date_added = Absent, !.notes = Absent], FALSE),
    Line([BlankRec EXCEPT !.name = "Pikachu"], TRUE) }

Files == UNION {[1..n -> ImportLines] : n \in 1..MaxRows}

NextImport == \E lines \in Files : ImportCsv(lines)

SpecImport == Init /\ [][NextImport]_vars

(* SpecAnalysis: the analysis of portfolios.  A portfolio is what two imports
   a second apart leave in the store: cards whose price rose (5.00 then
   10.00), cards whose price fell (10.00 then 5.00), cards imported once (the
   first with a price, the others without) and possibly a sealed box; the
   cost and quantity columns follow a pattern; the first line of the first
   file may be there twice. *)
Numbers ==
  <<"1", "2", "3", "4", "5", "6", "7", "8", "9", "10", "11", "12", "13", "14", "15",
    "16", "17", "18", "19", "20">>

Five == <<"5", ".", "0", "0">>

Ten == <<"1", "0", ".", "0", "0">>

QuantityText(pattern, k) ==
  IF pattern = "blank" THEN <<>>
  ELSE IF pattern = "three" THEN <<"3">>
  ELSE <<Numbers[(k % 3) + 1]>>

CostText(pattern, kind) ==
  IF pattern = "none" THEN <<>>
  ELSE IF pattern = "cheap" THEN <<"1">>
  ELSE IF pattern = "paid"
       THEN (IF kind = "gainer" THEN Five ELSE IF kind = "loser" THEN <<"1", "0">> ELSE <<>>)
       ELSE (IF kind = "gainer" THEN <<"-", "3">> ELSE IF kind = "loser" THEN <<"0">> ELSE Five)

(* the kind of the k-th card of recipe rc *)
KindOf(rc, k) ==
  IF k <= rc.gainers THEN "gainer"
  ELSE IF k <= rc.gainers + rc.losers THEN "loser" ELSE "flat"

CardRec(rc, k, market) ==
  [BlankRec EXCEPT !.name = "Pikachu", !.set_name = IF k % 2 = 0 THEN "Base" ELSE "",
                   !.card_number = Numbers[k],
                   !.market_price = market,
                   !.quantity = QuantityText(rc.quantity, k),
                   !.cost = CostText(rc.cost, KindOf(rc, k))]

BoxRec == [BlankRec EXCEPT !.name = "Booster Box", !.market_price = <<"5", "0", "0">>]

(* the first file: every holding, at its first price *)
FirstFile(rc) ==
  LET n     == rc.gainers + rc.losers + rc.flat
      cards == [k \in 1..n |->
                  Line(CardRec(rc, k, IF KindOf(rc, k) = "gainer" THEN Five
                                      ELSE IF KindOf(rc, k) = "loser" THEN Ten
                                      ELSE IF k = rc.gainers + rc.losers + 1 THEN Five
                                      ELSE <<>>), FALSE)]
      all   == IF rc.sealed THEN Append(cards, Line(BoxRec, FALSE)) ELSE cards
  IN IF rc.twice /\ all # <<>> THEN <<Head(all)>> \o all ELSE all

(* the second price of the k-th card: 10.00 for a gainer and 5.00 for a loser,
   or with spread prices that differ from card to card *)
SecondPrice(rc, k) ==
  IF KindOf(rc, k) = "gainer"
  THEN (IF ~rc.spread \/ k % 3 = 1 THEN Ten
        ELSE IF k % 3 = 2 THEN <<"7", ".", "5", "0">> ELSE <<"2", "0", ".", "0", "0">>)
  ELSE (IF ~rc.spread \/ k % 3 = 1 THEN Five
        ELSE IF k % 3 = 2 THEN <<"7", ".", "5", "0">> ELSE <<"2", ".", "5", "0">>)

(* the second file: the cards whose price moved, at their second price *)
SecondFile(rc) ==
  [k \in 1..(rc.gainers + rc.losers) |-> Line(CardRec(rc, k, SecondPrice(rc, k)), FALSE)]

(* the store after import_csv of the first file at second 0 and of the second
   file at second 1 *)
Built(rc) ==
  LET first == import_csv(<<>>, <<>>, FirstFile(rc), 0)
  IN import_csv(first.items, first.prices, SecondFile(rc), 1)

Recipe(g, l, f, b, c, q, t) ==
  [gainers |-> g, losers |-> l, flat |-> f, sealed |-> b, cost |-> c, quantity |-> q,
   twice |-> t, spread |-> FALSE]

CostPatterns == {"none", "paid", "odd"}

(* many movers, at the same and at different second prices, and a few
   holdings of every kind *)
Recipes ==
  {Recipe(g, l, 0, FALSE, c, "blank", FALSE) :
     g \in 0..MaxMovers, l \in 0..MaxMovers, c \in CostPatterns \cup {"cheap"}}
  \cup
  {[Recipe(g, l, 0, FALSE, "none", "blank", FALSE) EXCEPT !.spread = TRUE] :
     g \in 0..MaxMovers, l \in 0..MaxMovers}
  \cup
  {Recipe(r[1], r[2], r[3], r[4], r[5], r[6], r[7]) :
     r \in (0..2) \X (0..2) \X (0..2) \X BOOLEAN \X CostPatterns
           \X {"blank", "three", "mixed"} \X BOOLEAN}

InitAnalysis ==
  /\ now = 1
  /\ run = NoRun
  /\ \E rc \in Recipes :
       LET p == Built(rc)
       IN /\ items = p.items
          /\ prices = p.prices
          /\ last = [op |-> "import_file", raised |-> p.raised, stats |-> p.stats,
                     lines |-> SecondFile(rc)]

NextAnalysis == ApiAnalysis

SpecAnalysis == InitAnalysis /\ [][NextAnalysis]_vars

----------------------------------------------------------------------------
(* SpecRefresh: the refresh run over several cards.  Two cards and a sealed
   box are imported, the box with a market price; the run looks every card
   up, the pricing API answering with a priced card, an unpriced one or
   nothing; the clock moves by seconds. *)
RefreshRecs ==
  {[BlankRec EXCEPT !.name = "Pikachu", !.card_number = c] : c \in {"1", "2"}}
    \cup {[BlankRec EXCEPT !.name = "Booster Box", !.market_price = <<"$", "5">>]}

RefreshRows == {read_csv(rec) : rec \in RefreshRecs}

NextRefresh ==
  \/ \E row \in RefreshRows : ImportRow(row)
  \/ RefreshStart
  \/ \E resp \in Responses : RefreshStep(resp)
  \/ RefreshEnd
  \/ Tick(1)

SpecRefresh == Init /\ [][NextRefresh]_vars

(* SpecInterrupt: refresh runs that the termination of the process may end
   at any point, over the same holdings, within one second. *)
NextInterrupt ==
  \/ \E row \in RefreshRows : ImportRow(row)
  \/ RefreshStart
  \/ \E resp \in Responses : RefreshStep(resp)
  \/ \E resp \in Responses, filled \in BOOLEAN : RefreshInterrupt(resp, filled)
  \/ RefreshEnd

SpecInterrupt == Init /\ [][NextInterrupt]_vars

(* SpecOverride: files of one or two lines whose Price Override and Market
   Price columns are blank, positive, zero or negative (the market price
   negative only beside a blank override); a line is a card or has no product
   name. *)
OverrideTexts == {<<>>, <<"$", "7">>, <<"-", "2">>, <<"0">>}

MarketTexts == {<<>>, <<"$", "5">>}

OverrideLines ==
  {Line([BlankRec EXCEPT !.name = "Pikachu", !.price_override = o, !.market_price = m],
        FALSE) : o \in OverrideTexts, m \in MarketTexts}
  \cup {Line([BlankRec EXCEPT !.name = "Pikachu", !.market_price = <<"-", "1">>], FALSE),
        Line([BlankRec EXCEPT !.price_override = <<"$", "7">>], FALSE)}

OverrideFiles == UNION {[1..n -> OverrideLines] : n \in 1..2}

NextOverride == \E lines \in OverrideFiles : ImportCsv(lines)

SpecOverride == Init /\ [][NextOverride]_vars

(* SpecPacing: the requests of refresh runs in one process.  A run has one
   or two cards, with or without a catalog id; every request is answered
   with a card, with nothing, or fails; time.sleep may return late. *)
PacedCards == {[api_id |-> a] : a \in {None, Some("a")}}

PacedRuns == UNION {[1..n -> PacedCards] : n \in 1..2}

NextPacing ==
  \/ \E cards \in PacedRuns : PaceStart(cards)
  \/ \E late \in 0..1 : RateLimit(late)
  \/ \E answer \in Answers : Request(answer)
  \/ PaceTick

SpecPacing == InitPacing /\ [][NextPacing]_vars

----------------------------------------------------------------------------
(* Properties *)

(* the natural key of a stored item, an absent column equal to an absent one *)
Key(it) == <<it.name, it.set_name, it.card_number, it.variance, it.grade, it.condition>>

NoDuplicateKey == \A i, j \in ItemIds : Key(items[i]) = Key(items[j]) => i = j

(* this step is an upsert: a row imported or upsert_item called *)
UpsertStep ==
  /\ last'.op \in {"import_csv", "upsert_item"}
  /\ <<items, prices, last>>' # <<items, prices, last>>

(* the items stored before the step that carry the key the upsert was given
   (the key of the row it returned) *)
Holding == {i \in ItemIds : Key(items[i]) = Key(items'[last'.id])}

(* C1: over any sequence of imports and upsert calls no two items share the
   natural key (name, set_name, card_number, variance, grade, condition),
   absent equal to absent; an upsert whose key matches a stored item adds no
   row, returns that item's id and leaves its quantity that of the call. *)
C1_NaturalKeyUnique ==
  [][/\ NoDuplicateKey'
     /\ UpsertStep =>
          /\ last'.id \in 1..Len(items')
          /\ items'[last'.id].quantity = last'.quantity
          /\ Holding # {} => Len(items') = Len(items) /\ last'.id \in Holding
          /\ Holding # {} <=> last'.found]_vars

(* a re-import matched the stored item whose optional key columns are all
   absent, next to another item, and set its quantity *)
C1_Witness ==
  /\ last.op = "import_csv"
  /\ last.found
  /\ Len(items) = 2
  /\ items[last.id].set_name = None
  /\ items[last.id].condition = None
  /\ items[last.id].quantity = 2

(* the observations of item i in the order they were recorded *)
Observations(i) == SetToSeq(PricesOf(prices, i))

(* C2: for every item, current_price is the price recorded last for it and
   previous_price the price recorded immediately before, absent exactly when
   the item has a single observation (both absent when it has none),
   whatever the spacing of the calls and the recordings on other items. *)
C2_LatestAndPrevious ==
  \A k \in 1..Len(get_all_items(items, prices)) :
    LET r   == get_all_items(items, prices)[k]
        obs == Observations(r.id)
        n   == Len(obs)
    IN /\ n = 0 => r.current_price = None /\ r.previous_price = None
       /\ n >= 1 => r.current_price = Some(prices[obs[n]].price)
       /\ n = 1 => r.previous_price = None
       /\ n >= 2 => r.previous_price = Some(prices[obs[n - 1]].price)

(* C3: every stored item has quantity >= 1, whatever quantity text its CSV
   rows carried. *)
C3_QuantityAtLeastOne == \A i \in ItemIds : items[i].quantity >= 1

(* C4: every stored observation has price > 0, from import and from refresh. *)
C4_PricePositive == \A k \in 1..Len(prices) : prices[k].price > 0

(* C5: an upsert never changes an api_id that is already set, whatever
   api_id it supplies. *)
C5_ApiIdKept ==
  [][\A a \in IdentityCalls : UpsertCall(a) =>
       \A i \in ItemIds : IsSome(items[i].api_id) => items'[i].api_id = items[i].api_id]_vars

(* C6: observations are append-only.  No step changes or removes a stored
   observation, so the table only grows at its end; no item is removed, and
   every observation references a stored item. *)
C6_AppendOnly ==
  [][/\ IsPrefix(prices, prices')
     /\ Len(items) <= Len(items')
     /\ \A k \in 1..Len(prices') : prices'[k].item_id \in 1..Len(items')]_vars

(* two observations are stored, one of them written a second before, and a
   cost-basis edit of a stored item has just acted *)
C6_Witness ==
  /\ Len(prices) = 2
  /\ prices[1].timestamp < now
  /\ last.op = "update_item_cost_basis"
  /\ last.ok

(* the items that have at least one observation *)
Observed == {i \in ItemIds : PricesOf(prices, i) # {}}

(* the price recorded last for item i *)
LatestPrice(i) == prices[Max(PricesOf(prices, i))].price

(* C7: total_value is the sum, over the items that have an observation, of
   quantity times the item's latest observed price, each item counted once. *)
C7_TotalValue ==
  get_summary_stats(items, prices, now).total_value
    = SumOver(Observed, [i \in Observed |-> items[i].quantity * LatestPrice(i)])

(* no observation is more than 24 hours old *)
NoneOldEnough == \A k \in 1..Len(prices) : ~(prices[k].timestamp < now - DAY)

(* C8: daily_change = total_value - prev_value in every state;
   daily_change_pct is 0 whenever prev_value is 0; and when no observation is
   more than 24 hours old prev_value is total_value, so that daily_change and
   daily_change_pct are 0. *)
C8_DailyChangeFallback ==
  LET s == get_summary_stats(items, prices, now)
  IN /\ s.daily_change = s.total_value - s.prev_value
     /\ s.prev_value = 0 => s.daily_change_pct.num = 0 /\ s.daily_change_pct.den # 0
     /\ s.daily_change_pct.den # 0
     /\ NoneOldEnough =>
          /\ s.prev_value = s.total_value
          /\ s.daily_change = 0
          /\ s.daily_change_pct.num = 0

(* more than a day after the first import, the portfolio has a value and no
   observation old enough to serve as the baseline *)
C8_Witness ==
  /\ now > DAY
  /\ prices # <<>>
  /\ NoneOldEnough
  /\ get_summary_stats(items, prices, now).total_value > 0

(* C9: total_profit is total_value - total_cost exactly when total_cost > 0,
   and absent otherwise. *)
C9_TotalProfit ==
  LET s == get_summary_stats(items, prices, now)
  IN IF s.total_cost > 0
     THEN s.total_profit = Some(s.total_value - s.total_cost)
     ELSE s.total_profit = None

(* C10: whenever the portfolio total_cost is 0 (or absent), total_profit is
   absent and so are the pnl and pnl_pct of every item of the analysis. *)
C10_NoCostNoPnl ==
  LET s == get_summary_stats(items, prices, now)
      a == AnalyzedItems(items, prices)
  IN s.total_cost = 0 =>
       /\ s.total_profit = None
       /\ \A k \in 1..Len(a) : a[k].pnl = None /\ a[k].pnl_pct = None

(* the lines of the file just imported that carry a product name and that the
   database accepts *)
GoodLines(lines) == {n \in 1..Len(lines) : lines[n].rec.name # "" /\ ~lines[n].db_error}

(* C15: import_csv processes every line of the file.  It returns its counts;
   the errors are exactly the lines without a name and the lines whose
   reconciliation failed, every other line is imported (its item is stored),
   imported + errors = total and cards + sealed = imported. *)
C15_BatchCompletes ==
  last.op = "import_file" =>
    /\ ~last.raised
    /\ last.stats.total = Len(last.lines)
    /\ Len(last.stats.errors) = Len(last.lines) - Cardinality(GoodLines(last.lines))
    /\ last.stats.imported = Cardinality(GoodLines(last.lines))
    /\ last.stats.imported + Len(last.stats.errors) = last.stats.total
    /\ last.stats.cards + last.stats.sealed = last.stats.imported
    /\ \A n \in GoodLines(last.lines) :
         \E i \in ItemIds : items[i].name = last.lines[n].rec.name

(* the sum of two ratios equals the integer n *)
RatioSumIs(p, q, n) == p.num * q.den + q.num * p.den = n * p.den * q.den

(* C11: in every reachable store state the cards percentage plus the sealed
   percentage returned by analyze_portfolio is 100 when total_value > 0, and
   both percentages are 0 when total_value is 0. *)
C11_CompositionSums ==
  last.op = "api_analysis" =>
    LET composition == last.analysis.composition
    IN /\ last.analysis.total_value > 0 =>
            RatioSumIs(composition.cards.pct, composition.sealed.pct, 100)
       /\ last.analysis.total_value = 0 =>
            composition.cards.pct.num = 0 /\ composition.sealed.pct.num = 0

(* the rows of the analysis whose price rose, and those whose price fell *)
Rising(analysis) == SelectSeq(analysis.items, LAMBDA r : RatioLess(PctZero, r.change_pct))

Falling(analysis) == SelectSeq(analysis.items, LAMBDA r : RatioLess(r.change_pct, PctZero))

(* an entry with this title is among the recommendations *)
Advises(recommendations, title) ==
  \E k \in 1..Len(recommendations) : recommendations[k].title = title

RECURSIVE SumValues(_)
(* the sum of the value of the entries of the sets list *)
SumValues(entries) ==
  IF entries = <<>> THEN 0 ELSE Head(entries).value + SumValues(Tail(entries))

(* C12: every aggregate of the analytics and recommendation path (the
   concentration percentage, the composition, the per-set sums and the
   comparison of the number of gainers with the number of losers behind the
   momentum advisory) is computed over all items, never over the lists cut
   to 5 or 10 entries. *)
C12_FullItemSet ==
  (last.op = "api_analysis" /\ last.analysis.total_value # 0) =>
    LET analysis == last.analysis
        rising   == Len(Rising(analysis))
        falling  == Len(Falling(analysis))
    IN /\ Advises(last.recommendations, "Positive Momentum") <=> rising > falling
       /\ Advises(last.recommendations, "Market Pressure") <=>
            (falling > rising /\ falling > 3)
       /\ analysis.composition.cards.count + analysis.composition.sealed.count
            = Len(analysis.items)
       /\ analysis.composition.cards.value + analysis.composition.sealed.value
            = SumField(analysis.items)
       /\ Len(analysis.items) <= 5 => analysis.concentration.top_5_value = SumField(analysis.items)
       /\ analysis.concentration.top_5_pct
            = PctOf(analysis.concentration.top_5_value, analysis.total_value)
       /\ Len(analysis.sets) < 10 => SumValues(analysis.sets) = SumField(analysis.items)

(* C13 as stated: for every analysis result analyze_portfolio can produce,
   a portfolio whose total_value is 0 included, generate_recommendations
   returns at most 6 entries and its first entry is the health-score entry. *)
C13_HealthAlwaysFirst ==
  last.op = "api_analysis" =>
    /\ Len(last.recommendations) <= 6
    /\ Len(last.recommendations) >= 1
    /\ last.recommendations[1].title = "Portfolio Health"

(* C13: generate_recommendations returns at most 6 entries; when total_value
   is not 0 the first entry, and only the first, is the health-score entry;
   when total_value is 0 the single entry returned is "Get Started". *)
C13_CappedHealthFirst ==
  last.op = "api_analysis" =>
    /\ Len(last.recommendations) <= 6
    /\ last.analysis.total_value # 0 =>
         /\ Len(last.recommendations) >= 1
         /\ \A k \in 1..Len(last.recommendations) :
              last.recommendations[k].title = "Portfolio Health" <=> k = 1
    /\ last.analysis.total_value = 0 =>
         last.recommendations = <<Entry("info", "Get Started")>>

(* seven entries were due (health, momentum, two profits, a loss, the
   concentration warning and the cost reminder) and six were returned, the
   health entry first and the cost reminder cut *)
C13_Witness ==
  /\ last.op = "api_analysis"
  /\ Len(last.recommendations) = 6
  /\ last.recommendations[1].title = "Portfolio Health"
  /\ last.recommendations[6].title = "Concentration Risk"
  /\ CoverageBelow(last.analysis, 7)
  /\ ~Advises(last.recommendations, "Track Your Costs")

(* this step is a call of update_cost_basis *)
CostStep ==
  /\ last'.op = "update_item_cost_basis"
  /\ now' = now
  /\ <<items, last>>' # <<items, last>>

(* item i after the step is item i before it but for cost_basis and updated_at *)
OnlyCostChanged(i) ==
  [items'[i] EXCEPT !.cost_basis = items[i].cost_basis, !.updated_at = items[i].updated_at]
    = items[i]

(* C14: update_cost_basis on an unknown item id returns false and leaves
   every item and observation unchanged; on a known id it returns true and
   changes only that item's cost_basis and updated_at; repeating the call
   with the same value leaves the store unchanged apart from updated_at. *)
C14_CostBasisPointUpdate ==
  [][CostStep =>
       /\ prices' = prices
       /\ Len(items') = Len(items)
       /\ last'.ok <=> last'.id \in ItemIds
       /\ ~last'.ok => items' = items
       /\ last'.ok =>
            /\ \A j \in ItemIds \ {last'.id} : items'[j] = items[j]
            /\ OnlyCostChanged(last'.id)
            /\ items'[last'.id].updated_at = now
            /\ items'[last'.id].cost_basis = items[last'.id].cost_basis =>
                 items' = [items EXCEPT ![last'.id].updated_at = now]]_vars

(* the cost basis of one of two items was set, in a later second than the
   other item was written *)
C14_Witness ==
  /\ last.op = "update_item_cost_basis"
  /\ last.ok
  /\ Len(items) = 2
  /\ items[last.id].cost_basis = Some(300)
  /\ \E j \in ItemIds : items[j].updated_at < items[last.id].updated_at
                        /\ items[j].cost_basis = None

(* the observations of item i recorded since the refresh run began *)
NewObservations(i) == {k \in (run.base + 1)..Len(prices) : prices[k].item_id = i}

NonSealed == {i \in ItemIds : ~items[i].is_sealed}

(* C16: during a refresh run a lookup that fails, or finds no match or no
   price, for one card is counted as failed for that card only and the run
   goes on with the next card; when the run ends, updated + failed is the
   number of non-sealed items, each updated card has exactly one new
   observation and each failed card has none. *)
C16_RefreshCounts ==
  [][/\ (last'.op = "update_step" /\ run' # run) =>
          /\ run'.active
          /\ run'.cards = Tail(run.cards)
          /\ last'.id = Head(run.cards).id
          /\ last'.ok =>
               /\ run'.updated = run.updated + 1 /\ run'.failed = run.failed
               /\ Len(prices') = Len(prices) + 1
               /\ prices'[Len(prices')].item_id = last'.id
               /\ SubSeq(prices', 1, Len(prices)) = prices
          /\ ~last'.ok =>
               /\ run'.failed = run.failed + 1 /\ run'.updated = run.updated
               /\ prices' = prices
               /\ items' = items
     /\ (last'.op = "update_done" /\ run.active) =>
          /\ run.updated + run.failed = Cardinality(NonSealed)
          /\ Len(prices) - run.base = run.updated
          /\ \A i \in NonSealed : Cardinality(NewObservations(i)) <= 1
          /\ Cardinality({i \in NonSealed : NewObservations(i) # {}}) = run.updated
          /\ \A i \in ItemIds \ NonSealed : NewObservations(i) = {}]_vars

(* a run over two cards is about to end, one card updated and one failed *)
C16_Witness ==
  /\ run.active
  /\ run.cards = <<>>
  /\ run.updated = 1
  /\ run.failed = 1
  /\ last.op = "update_step"
  /\ Len(prices) = run.base + 1

(* this step is a call of upsert_item that follows a call with the same
   arguments *)
RepeatedUpsert ==
  /\ last.op = "upsert_item"
  /\ last'.op = "upsert_item"
  /\ now' = now
  /\ last'.args = last.args
  /\ <<items, last>>' # <<items, last>>

(* C17: calling upsert twice in succession with identical arguments returns
   the same item id both times and leaves the store as a single call leaves
   it, except for updated_at, both when the first call inserts and when it
   updates. *)
C17_UpsertIdempotent ==
  [][RepeatedUpsert =>
       /\ last'.repeats = (IF last.found THEN "update" ELSE "insert")
       /\ last'.id = last.id
       /\ last'.found
       /\ prices' = prices
       /\ items' = [items EXCEPT ![last.id].updated_at = now]]_vars

(* upsert_item was called a second time with the same arguments, a second
   after the first call had updated the stored item; the api_id the call
   does not give is the stored one *)
C17_Witness ==
  /\ last.op = "upsert_item"
  /\ last.repeats = "update"
  /\ last.args.api_id = None
  /\ items[last.id].api_id = Some("b")
  /\ items[last.id].updated_at = 1

(* the rows in the opposite order, and with the first row moved to the end *)
Reversed(rows) == [k \in 1..Len(rows) |-> rows[Len(rows) + 1 - k]]

Rotated(rows) == IF rows = <<>> THEN rows ELSE Append(Tail(rows), Head(rows))

(* the number of rows worth more than v *)
WorthMore(rows, v) == Len(SelectSeq(rows, LAMBDA r : r.total_value > v))

(* the sum of the five greatest values of the rows, from the values alone:
   v being the fifth greatest value, the values above v and as many times v
   as are missing to five *)
FiveGreatest(rows) ==
  IF Len(rows) <= 5 THEN SumField(rows)
  ELSE LET v == CHOOSE v \in {rows[k].total_value : k \in 1..Len(rows)} :
                  /\ WorthMore(rows, v) < 5
                  /\ WorthMore(rows, v - 1) >= 5
       IN SumField(SelectSeq(rows, LAMBDA r : r.total_value > v))
            + (5 - WorthMore(rows, v)) * v

(* C18: the top-5 value and the top-5 percentage of analyze_portfolio are the
   same for every order of the same items, also when items tie in value at
   the fifth position: they depend only on the values of the items. *)
C18_TopFiveOrderFree ==
  last.op = "api_analysis" =>
    LET analysis == last.analysis
        rows     == analysis.items
    IN /\ analysis.concentration.top_5_value = FiveGreatest(rows)
       /\ SumField(TopSlice(Reversed(rows))) = analysis.concentration.top_5_value
       /\ SumField(TopSlice(Rotated(rows))) = analysis.concentration.top_5_value
       /\ analysis.concentration.top_5_pct
            = PctOf(SumField(TopSlice(Reversed(rows))), analysis.total_value)

(* more than five items were analysed, the sixth in value tying with the
   fifth, and an item worth more than the fifth stored after five others *)
C18_Witness ==
  /\ last.op = "api_analysis"
  /\ Len(last.analysis.items) > 5
  /\ \E v \in {last.analysis.items[k].total_value : k \in 1..Len(last.analysis.items)} :
       /\ v > 0
       /\ WorthMore(last.analysis.items, v) < 5
       /\ WorthMore(last.analysis.items, v - 1) > 5
       /\ \E k \in 6..Len(last.analysis.items) : last.analysis.items[k].total_value > v

(* the integer n when the option holds one, 0 when it is absent *)
Known(o) == IF IsSome(o) THEN Get(o) ELSE 0

(* C19: for every item analyze_portfolio sets total_value = current_price x
   quantity (0 without a current price) and total_cost = cost_basis x
   quantity; pnl = total_value - total_cost and pnl_pct = (current_price -
   cost_basis) / cost_basis x 100 are defined exactly when cost_basis > 0 and
   a current price exists, and are absent otherwise.  Quantity 3, price
   10.00 and cost basis 5.00 give 30.00, 15.00, 15.00 and 100.0. *)
C19_ItemMetrics ==
  last.op = "api_analysis" =>
    \A k \in 1..Len(last.analysis.items) :
      LET r       == last.analysis.items[k]
          defined == IsSome(r.cost_basis) /\ Get(r.cost_basis) > 0 /\ IsSome(r.current_price)
      IN /\ r.total_value = Known(r.current_price) * r.quantity
         /\ r.total_cost = Known(r.cost_basis) * r.quantity
         /\ IsSome(r.pnl) <=> defined
         /\ IsSome(r.pnl_pct) <=> defined
         /\ defined =>
              /\ Get(r.pnl) = r.total_value - r.total_cost
              /\ Get(r.pnl_pct).den > 0
              /\ Get(r.pnl_pct).num * Get(r.cost_basis)
                   = (Get(r.current_price) - Get(r.cost_basis)) * 100 * Get(r.pnl_pct).den
         /\ (r.quantity = 3 /\ r.current_price = Some(1000) /\ r.cost_basis = Some(500)) =>
              /\ r.total_value = 3000
              /\ r.total_cost = 1500
              /\ r.pnl = Some(1500)
              /\ Get(r.pnl_pct).num = 100 * Get(r.pnl_pct).den

(* the analysis holds the item of the scenario (quantity 3, price 10.00, cost
   basis 5.00) and an item with no price, whose value is 0 and whose pnl is
   absent *)
C19_Witness ==
  /\ last.op = "api_analysis"
  /\ \E k \in 1..Len(last.analysis.items) :
       /\ last.analysis.items[k].quantity = 3
       /\ last.analysis.items[k].current_price = Some(1000)
       /\ last.analysis.items[k].cost_basis = Some(500)
       /\ last.analysis.items[k].pnl = Some(1500)
  /\ \E k \in 1..Len(last.analysis.items) :
       /\ last.analysis.items[k].current_price = None
       /\ last.analysis.items[k].total_value = 0
       /\ last.analysis.items[k].pnl = None

(* the rows that have a cost basis: one is recorded and it is not 0 *)
Costed(rows) == {k \in 1..Len(rows) : IsSome(rows[k].cost_basis) /\ Get(rows[k].cost_basis) # 0}

(* the health score the rules give for an analysis *)
HealthByRules(analysis) ==
  LET penalties ==
        (IF PctAbove(analysis.concentration.top_5_pct, 60) THEN 20 ELSE 0)
        + (IF 2 * Cardinality(Costed(analysis.items)) < Len(analysis.items) THEN 15 ELSE 0)
        + (IF PctAbove(analysis.composition.sealed.pct, 80) THEN 10 ELSE 0)
      gain == analysis.total_value - analysis.total_cost
  IN IF analysis.total_cost > 0 /\ 100 * gain > 20 * analysis.total_cost
     THEN (IF 100 - penalties + 10 > 100 THEN 100 ELSE 100 - penalties + 10)
     ELSE IF analysis.total_cost > 0 /\ 100 * gain < -10 * analysis.total_cost
     THEN 100 - penalties - 10
     ELSE 100 - penalties

(* C20: the health score of generate_recommendations starts at 100 and
   changes only by -20 if the top-5 concentration is above 60%, -15 if fewer
   than 50% of the items have a cost basis, -10 if the sealed share is above
   80%, and, only when total_cost > 0, +10 capped at 100 if the ROI is above
   20% or -10 if it is below -10%; it is a function of the analysis alone. *)
C20_HealthScore ==
  (last.op = "api_analysis" /\ last.analysis.total_value # 0) =>
    /\ last.recommendations[1].health = HealthByRules(last.analysis)
    /\ last.recommendations[1].health <= 100
    /\ last.recommendations[1].type =
         (IF last.recommendations[1].health >= 80 THEN "success"
          ELSE IF last.recommendations[1].health >= 60 THEN "warning" ELSE "danger")

(* no penalty applied and the ROI was above 20%: the bonus met the cap *)
C20_Witness ==
  /\ last.op = "api_analysis"
  /\ last.analysis.total_value # 0
  /\ last.analysis.total_cost > 0
  /\ 100 * (last.analysis.total_value - last.analysis.total_cost) > 20 * last.analysis.total_cost
  /\ ~PctAbove(last.analysis.concentration.top_5_pct, 60)
  /\ 2 * Cardinality(Costed(last.analysis.items)) >= Len(last.analysis.items)
  /\ last.recommendations[1].health = 100

(* the ids of the rows of a list *)
IdsOf(list) == {list[k].id : k \in 1..Len(list)}

(* p goes before q: it is the greater of the two with desc, the lesser
   without *)
Before(p, q, desc) == IF desc THEN RatioLess(q, p) ELSE RatioLess(p, q)

(* list holds rows of the candidates, at most 5, in order, and no row left
   out goes before a row of the list *)
MostExtreme(list, candidates, desc) ==
  /\ Len(list) = (IF Len(candidates) < 5 THEN Len(candidates) ELSE 5)
  /\ \A k \in 1..Len(list) : \E j \in 1..Len(candidates) : candidates[j] = list[k]
  /\ \A j, k \in 1..Len(list) : j < k => ~Before(list[k].change_pct, list[j].change_pct, desc)
  /\ \A j \in 1..Len(candidates) :
       candidates[j].id \notin IdsOf(list) =>
         \A k \in 1..Len(list) : ~Before(candidates[j].change_pct, list[k].change_pct, desc)

(* C21: in analyze_portfolio gainers holds only items with change_pct > 0, in
   descending order of change_pct, losers only items with change_pct < 0, in
   ascending order; each list has at most 5 entries and holds the 5 most
   extreme items of its sign; no item is in both lists, and an item without
   both a current and a previous price is in neither. *)
C21_Movers ==
  last.op = "api_analysis" =>
    LET analysis == last.analysis
        gainers  == analysis.movers.gainers
        losers   == analysis.movers.losers
    IN /\ MostExtreme(gainers, Rising(analysis), TRUE)
       /\ MostExtreme(losers, Falling(analysis), FALSE)
       /\ \A k \in 1..Len(gainers) : gainers[k].change_pct.num > 0
       /\ \A k \in 1..Len(losers) : losers[k].change_pct.num < 0
       /\ IdsOf(gainers) \cap IdsOf(losers) = {}
       /\ \A k \in 1..Len(analysis.items) :
            (IsNone(analysis.items[k].current_price) \/ IsNone(analysis.items[k].previous_price)) =>
              /\ analysis.items[k].change_pct.num = 0
              /\ analysis.items[k].id \notin IdsOf(gainers) \cup IdsOf(losers)

(* six items fell by different percentages: the five that fell most are the
   losers, the greatest fall first, and the sixth is left out *)
C21_Witness ==
  /\ last.op = "api_analysis"
  /\ Len(Falling(last.analysis)) > 5
  /\ Len(last.analysis.movers.losers) = 5
  /\ RatioLess(last.analysis.movers.losers[1].change_pct,
               last.analysis.movers.losers[5].change_pct)
  /\ Len(last.analysis.movers.gainers) >= 1

(* C22: for any two consecutive requests to the pricing API made in one
   process, within one refresh run or across runs and cards, the second is
   issued at least MIN_CALL_INTERVAL after the moment recorded for the
   first: _rate_limit sleeps out the remainder and then records the new call
   time. *)
C22_MinimumSpacing ==
  /\ last.op = "request" =>
       /\ last.sent >= last.previous + MIN_CALL_INTERVAL
       /\ last.sent >= last.last_call_time
  /\ last.op = "_rate_limit" =>
       /\ last.last_call_time >= last.previous + MIN_CALL_INTERVAL
       /\ last.last_call_time <= now

(* a request was issued exactly MIN_CALL_INTERVAL after the time recorded for
   the request before it, _rate_limit having slept *)
C22_Witness ==
  /\ last.op = "request"
  /\ last.call_count >= 1
  /\ last.previous > 0
  /\ last.slept > 0
  /\ last.sent = last.previous + MIN_CALL_INTERVAL

(* C23 as stated: for every card processed lookup_and_price_card performs
   exactly one pricing-API request, whether or not the card has a catalog id
   and whether or not the first lookup finds a match. *)
C23_OneRequestPerCard ==
  (last.op = "request" /\ last.returned) => Len(last.path) = 1

(* C23: for every card processed lookup_and_price_card performs its requests
   one after the other, between one and three of them: the request by id
   when the card has a catalog id; the search when the card has none or the
   request by id gave no card; the looser search after a search only. *)
C23_RequestsPerCard ==
  (last.op = "request" /\ last.returned) =>
    IF IsSome(last.api_id)
    THEN last.path \in {<<"by_id">>, <<"by_id", "search">>, <<"by_id", "search", "loose">>}
    ELSE last.path \in {<<"search">>, <<"search", "loose">>}

(* the lookup of a card with a catalog id returned after three requests: by
   id, the search and the looser search *)
C23_Witness ==
  /\ last.op = "request"
  /\ last.returned
  /\ IsSome(last.api_id)
  /\ last.path = <<"by_id", "search", "loose">>
  /\ last.call_count = 3

(* the observations recorded since the run began are of cards of the run
   that are not pending *)
OnlyProcessedObserved(base, pending) ==
  /\ Len(prices) >= base
  /\ \A k \in (base + 1)..Len(prices) :
       /\ \A j \in 1..Len(pending) : pending[j] # prices[k].item_id
       /\ ~items[prices[k].item_id].is_sealed

(* the ids of the cards the run has not attempted yet *)
PendingIds == [k \in 1..Len(run.cards) |-> run.cards[k].id]

(* C24: if a refresh run is interrupted after any number of cards, every
   observation recorded before the interruption remains stored, each card
   not yet attempted has exactly the observations and the api_id it had
   before the run, and at every point of the run the store differs from the
   store before the run only by observations and api-id fills of cards
   already processed. *)
C24_InterruptedRun ==
  /\ [](/\ run.active => OnlyProcessedObserved(run.base, PendingIds)
        /\ last.op = "interrupted" => OnlyProcessedObserved(last.base, last.pending))
  /\ [][run.active =>
          /\ Len(items') = Len(items)
          /\ Len(prices') >= Len(prices)
          /\ SubSeq(prices', 1, Len(prices)) = prices
          /\ \A i \in ItemIds :
               items'[i] # items[i] =>
                 /\ run.cards # <<>>
                 /\ i = Head(run.cards).id
                 /\ IsNone(items[i].api_id)
                 /\ IsSome(items'[i].api_id)
                 /\ [items'[i] EXCEPT !.api_id = None, !.updated_at = items[i].updated_at]
                      = items[i]
          /\ run'.active =>
               /\ run'.base = run.base
               /\ run'.cards = run.cards \/ (run.cards # <<>> /\ run'.cards = Tail(run.cards))
          /\ last'.op = "interrupted" =>
               /\ prices' = prices
               /\ last'.base = run.base
               /\ \A j \in 1..Len(last'.pending) :
                    items'[last'.pending[j]] = items[last'.pending[j]]]_vars

(* a run over two cards was interrupted after the first: its observation and
   its api-id fill are stored and the second card is pending *)
C24_Witness ==
  /\ last.op = "interrupted"
  /\ Len(last.pending) = 1
  /\ Len(prices) = last.base + 1
  /\ IsSome(items[prices[Len(prices)].item_id].api_id)
  /\ IsNone(items[last.pending[1]].api_id)

(* C25: the api_id fill done by refresh is one-way: refresh sets an item's
   api_id only when the item had none and the lookup returned both a catalog
   id and a price; over any sequence of imports and refresh runs an api_id
   that is set never changes, even when a later lookup resolves the card to
   a different catalog id. *)
C25_ApiIdFilledOnce ==
  [][\A i \in ItemIds :
       /\ IsSome(items[i].api_id) => items'[i].api_id = items[i].api_id
       /\ items'[i].api_id # items[i].api_id =>
            /\ last'.op = "update_step"
            /\ last'.id = i
            /\ last'.ok
            /\ Len(prices') = Len(prices) + 1
            /\ prices'[Len(prices')].item_id = i]_vars

(* a card whose api_id is "a" was looked up again, the lookup resolved it to
   the catalog id "b" with a price, and the api_id is still "a" *)
C25_Witness ==
  /\ last.op = "update_step"
  /\ last.ok
  /\ items[last.id].api_id = Some("a")
  /\ prices[Len(prices)].item_id = last.id
  /\ prices[Len(prices)].price = -100

(* C26: in every reachable store state get_all_items returns exactly one row
   per stored item, also when an item has several observations carrying the
   same timestamp; item_count of get_summary_stats equals the length of
   that list. *)
C26_OneRowPerItem ==
  LET rows == get_all_items(items, prices)
  IN /\ Len(rows) = Len(items)
     /\ \A i \in ItemIds : Cardinality({k \in 1..Len(rows) : rows[k].id = i}) = 1
     /\ get_summary_stats(items, prices, now).item_count = Len(rows)

(* C27: the two computation paths agree: total_value of get_summary_stats is
   the sum of the per-item total_value that analyze_portfolio computes from
   get_all_items, hence cards_value + sealed_value = total_value,
   top_5_value <= total_value and top_5_pct <= 100. *)
C27_PathsAgree ==
  last.op = "api_analysis" =>
    LET analysis == last.analysis
    IN /\ analysis.total_value = SumField(analysis.items)
       /\ analysis.composition.cards.value + analysis.composition.sealed.value
            = analysis.total_value
       /\ analysis.concentration.top_5_value <= analysis.total_value
       /\ ~PctAbove(analysis.concentration.top_5_pct, 100)

(* C28: the refresh operation never appends an observation to, and never
   changes the api_id of, an item whose sealed flag is set: after any refresh
   run the observations of every sealed item are those it had before;
   sealed items receive observations only through import. *)
C28_SealedUntouched ==
  [][\A i \in ItemIds :
       items[i].is_sealed =>
         /\ (run.active \/ run'.active) =>
              /\ items'[i] = items[i]
              /\ \A k \in 1..Len(run'.cards) : run'.cards[k].id # i
              /\ Cardinality(PricesOf(prices', i)) = Cardinality(PricesOf(prices, i))
         /\ Cardinality(PricesOf(prices', i)) # Cardinality(PricesOf(prices, i)) =>
              last'.op = "import_csv" /\ last'.id = i]_vars

(* a run that updated a card is about to end, the store holding a sealed
   item with its one observation, from import *)
C28_Witness ==
  /\ run.active
  /\ run.cards = <<>>
  /\ run.updated = 1
  /\ \E i \in ItemIds : items[i].is_sealed /\ Cardinality(PricesOf(prices, i)) = 1

(* C29: an item's cost_basis is last-writer-wins over upsert and
   update_cost_basis: the operation that targets an item leaves it with the
   cost it supplied, absent included, and no other item's cost_basis changes;
   so a re-import of a matching row with a blank cost sets cost_basis back to
   absent, discarding a value set through update_cost_basis. *)
C29_CostLastWriterWins ==
  [][/\ last'.op \in {"import_csv", "update_item_cost_basis"}
     /\ last'.id \in 1..Len(items')
     => /\ items'[last'.id].cost_basis = last'.cost
        /\ \A j \in ItemIds \ {last'.id} : items'[j].cost_basis = items[j].cost_basis]_vars

(* a row was imported again with a blank cost over a cost basis of 4.50,
   which only update_cost_basis supplies *)
C29_Witness ==
  /\ last.op = "import_csv"
  /\ last.found
  /\ last.cost = None
  /\ last.replaced = Some(450)
  /\ items[last.id].cost_basis = None

(* the price a line of a file offers: its Price Override when that is present
   and not zero, otherwise its Market Price *)
ChosenPrice(rec) ==
  LET override == parse_price(rec.price_override)
  IN IF override # None /\ Get(override) # 0
     THEN override ELSE parse_price(rec.market_price)

(* the line has a name and offers a price greater than zero *)
Usable(line) ==
  /\ line.rec.name # ""
  /\ ChosenPrice(line.rec) # None
  /\ Get(ChosenPrice(line.rec)) > 0

(* C30: for each imported row that has a name, import records at most one
   observation: the chosen price is price_override when present and nonzero,
   otherwise market_price, recorded only if > 0 (a negative override is chosen
   and then discarded even when market_price is valid); a row with no usable
   price records nothing while its item is still upserted and counted as
   imported. *)
C30_ImportPriceChoice ==
  [][last'.op = "import_file" /\ ~last'.raised =>
       LET lines  == last'.lines
           named  == {n \in 1..Len(lines) : lines[n].rec.name # ""}
           usable == SelectSeq(lines, Usable)
       IN /\ last'.stats.imported = Cardinality(named)
          /\ \A n \in named :
               \E i \in 1..Len(items') : items'[i].name = lines[n].rec.name
          /\ Len(prices') = Len(prices) + Len(usable)
          /\ SubSeq(prices', 1, Len(prices)) = prices
          /\ \A k \in 1..Len(usable) :
               /\ prices'[Len(prices) + k].price = Get(ChosenPrice(usable[k].rec))
               /\ items'[prices'[Len(prices) + k].item_id].name = usable[k].rec.name]_vars

(* a file of two lines was imported: one with a negative override beside a
   valid market price, which recorded nothing, and one whose override of 7.00
   was recorded over its market price *)
C30_Witness ==
  /\ last.op = "import_file"
  /\ Len(last.lines) = 2
  /\ last.lines[1].rec.name = "Pikachu"
  /\ last.lines[1].rec.price_override = <<"-", "2">>
  /\ last.lines[1].rec.market_price = <<"$", "5">>
  /\ last.lines[2].rec.price_override = <<"$", "7">>
  /\ last.lines[2].rec.market_price = <<"$", "5">>
  /\ last.stats.imported = 2
  /\ Len(items) = 1
  /\ Len(prices) = 1
  /\ prices[1].price = 700

============================================================================
